---- MODULE Spec2Model ----
(***************************************************************************)
(* A model of tsflower's converter from TypeScript declaration syntax to   *)
(* Flow declaration syntax: convertSourceFile and everything under it      *)
(* (convert.ts) together with the rewrite tables and macros (rewrite.ts).  *)
(*                                                                         *)
(* TypeScript nodes are records tagged by 'kind' (the SyntaxKind name),    *)
(* with 'pos'/'end' offsets into the file text; a property the TS node     *)
(* leaves undefined is a field the record does not have.  Flow (ast-types) *)
(* nodes are records tagged by 'type'; null is the record Null.  A thrown  *)
(* exception is the record [type |-> "Throw", message |-> M], which every  *)
(* operator passes on in the order the code would have raised it.          *)
(***************************************************************************)
EXTENDS Integers, Sequences, FiniteSets, TLC

VARIABLES
    sourceFile,  \* the ts.SourceFile being converted: text, fileName, statements
    out,         \* what convertSourceFile returned (a File) or threw; Null before
    typeNode,    \* the ts.TypeNode handed to convertType on its own; Null before
    typeOut,     \* what that call returned (a Flow type node) or threw
    innerNode,   \* the statement handed to modifyStatementAsExport on its own; Null before
    innerOut,    \* what that call returned
    previous     \* the file and the result of the call of convertSourceFile
                 \* before the present one; Null when there was none

vars == <<sourceFile, out, typeNode, typeOut, innerNode, innerOut, previous>>

----------------------------------------------------------------------------
(* Values shared by all operators *)

Null == [type |-> "Null"]

Throw(message) == [type |-> "Throw", message |-> message]

Has(node, field) == field \in DOMAIN node

IsThrow(x) == Has(x, "type") /\ x.type = "Throw"

\* The first exception raised while evaluating 'parts' in order, or 'node'.
Propagate(parts, node) ==
    IF \E i \in DOMAIN parts : IsThrow(parts[i])
    THEN parts[CHOOSE i \in DOMAIN parts :
                 /\ IsThrow(parts[i])
                 /\ \A j \in DOMAIN parts : j < i => ~IsThrow(parts[j])]
    ELSE node

Range(s) == {s[i] : i \in DOMAIN s}

\* String.prototype.slice(start, end) for 0 <= start <= end <= length.
Slice(text, start, end) == SubSeq(text, start + 1, end)

----------------------------------------------------------------------------
(* ast-types builders used by the converter *)

b_commentBlock(value, leading, trailing) ==
    [type |-> "CommentBlock", value |-> value,
     leading |-> leading, trailing |-> trailing]

\* What ast-types raises when a required string field is given undefined.
BuilderError(field) == Throw("no value or default function given for field " \o field)

b_identifier(name) == [type |-> "Identifier", name |-> name]

b_identifierTyped(name, typeAnnotation) ==
    [type |-> "Identifier", name |-> name, typeAnnotation |-> typeAnnotation]

b_typeAnnotation(t) == [type |-> "TypeAnnotation", typeAnnotation |-> t]

b_stringLiteral(value) == [type |-> "StringLiteral", value |-> value]

b_genericTypeAnnotation(id, typeParameters) ==
    [type |-> "GenericTypeAnnotation", id |-> id, typeParameters |-> typeParameters]

b_typeParameterInstantiation(params) ==
    [type |-> "TypeParameterInstantiation", params |-> params]

b_qualifiedTypeIdentifier(qualification, id) ==
    [type |-> "QualifiedTypeIdentifier", qualification |-> qualification, id |-> id]

b_objectTypeProperty(key, value, optional) ==
    [type |-> "ObjectTypeProperty", key |-> key, value |-> value, optional |-> optional]

b_objectTypeIndexer(id, key, value) ==
    [type |-> "ObjectTypeIndexer", id |-> id, key |-> key, value |-> value]

\* b.objectTypeAnnotation(properties, indexers, callProperties) and
\* b.objectTypeAnnotation.from({...}); inexact/exact default to false.
b_objectTypeAnnotation(properties, indexers, callProperties, exact, inexact) ==
    [type |-> "ObjectTypeAnnotation", properties |-> properties,
     indexers |-> indexers, callProperties |-> callProperties,
     exact |-> exact, inexact |-> inexact]

b_functionTypeParam(name, typeAnnotation, optional) ==
    [type |-> "FunctionTypeParam", name |-> name,
     typeAnnotation |-> typeAnnotation, optional |-> optional]

b_functionTypeAnnotation(params, returnType, rest, typeParameters) ==
    [type |-> "FunctionTypeAnnotation", params |-> params, returnType |-> returnType,
     rest |-> rest, typeParameters |-> typeParameters]

b_typeParameter(name, variance, bound, default) ==
    [type |-> "TypeParameter", name |-> name, variance |-> variance,
     bound |-> bound, default |-> default]

b_typeParameterDeclaration(params) ==
    [type |-> "TypeParameterDeclaration", params |-> params]

b_emptyStatement(comments) == [type |-> "EmptyStatement", comments |-> comments]

b_simple(type) == [type |-> type]

b_arrayTypeAnnotation(elementType) ==
    [type |-> "ArrayTypeAnnotation", elementType |-> elementType]

b_tupleTypeAnnotation(types) == [type |-> "TupleTypeAnnotation", types |-> types]

b_unionTypeAnnotation(types) == [type |-> "UnionTypeAnnotation", types |-> types]

b_intersectionTypeAnnotation(types) ==
    [type |-> "IntersectionTypeAnnotation", types |-> types]

b_typeofTypeAnnotation(argument) ==
    [type |-> "TypeofTypeAnnotation", argument |-> argument]

b_booleanLiteralTypeAnnotation(value, raw) ==
    [type |-> "BooleanLiteralTypeAnnotation", booleanValue |-> value, raw |-> raw]

b_numberLiteralTypeAnnotation(value, raw) ==
    [type |-> "NumberLiteralTypeAnnotation", numberValue |-> value, raw |-> raw]

b_stringLiteralTypeAnnotation(value, raw) ==
    [type |-> "StringLiteralTypeAnnotation", stringValue |-> value, raw |-> raw]

----------------------------------------------------------------------------
(* Optional properties and the values the converter gets from TypeScript *)

Undefined == [undefined |-> TRUE]

IsUndefined(x) == Has(x, "undefined")

\* node[field] for an optional NodeArray: undefined, or the array.
Opt(node, field) ==
    IF Has(node, field)
    THEN [length |-> Len(node[field]), items |-> node[field]]
    ELSE Undefined

\* util.some(array, pred) with the predicate given as the set of elements it accepts.
some(array, accepted) ==
    /\ ~IsUndefined(array)
    /\ \E i \in DOMAIN array.items : array.items[i] \in accepted

\* tsutil.hasModifier(node, kind)
hasModifier(node, kind) ==
    some(Opt(node, "modifiers"), {[kind |-> kind]})

\* ts.isIdentifier, ts.isPrivateIdentifier, ts.isQualifiedName, ...
ts_isIdentifier(node) == node.kind = "Identifier"

ts_isPrivateIdentifier(node) == node.kind = "PrivateIdentifier"

ts_isQualifiedName(node) == node.kind = "QualifiedName"

ts_isPropertyAccessExpression(node) == node.kind = "PropertyAccessExpression"

ts_isNumericLiteral(node) == node.kind = "NumericLiteral"

ts_isStringLiteral(node) == node.kind = "StringLiteral"

ts_isLiteralTypeNode(node) == node.kind = "LiteralType"

ts_isUnionTypeNode(node) == node.kind = "UnionType"

ts_isInterfaceDeclaration(node) == node.kind = "InterfaceDeclaration"

ts_isNamedImports(node) == node.kind = "NamedImports"

ts_isNamespaceExport(node) == node.kind = "NamespaceExport"

ts_isNamedExports(node) == node.kind = "NamedExports"

\* tsutil.isEntityNameOrEntityNameExpression: an identifier, a qualified name,
\* or a property access whose expression is again such a name.
RECURSIVE isEntityNameOrEntityNameExpression(_)
isEntityNameOrEntityNameExpression(node) ==
    \/ ts_isIdentifier(node)
    \/ ts_isQualifiedName(node)
    \/ /\ ts_isPropertyAccessExpression(node)
       /\ ts_isIdentifier(node.name)
       /\ isEntityNameOrEntityNameExpression(node.expression)

\* checker.getSymbolAtLocation(node): the symbol the external resolver attached
\* to a name node, undefined for a name it could not resolve.
checker_getSymbolAtLocation(node) ==
    IF Has(node, "symbol") THEN node.symbol ELSE Undefined

\* JavaScript's Number(text) on the numeric literal texts of the model.
Number(text) ==
    CASE text = "0" -> 0
      [] text = "1" -> 1
      [] text = "42" -> 42
      [] text = "0x10" -> 16

----------------------------------------------------------------------------
(* Diagnostics / fallback emitter.  A backquote in a message of the code is
   written ' here. *)

\* quotedStatement that quotes the file from its start to the end of the node.
quotedStatement_fromStart(node) ==
    b_commentBlock(" " \o Slice(sourceFile.text, 0, node.end) \o " ",
                   FALSE, TRUE)

\* quotedStatement that leaves out the first character of the span.
quotedStatement_clipped(node) ==
    b_commentBlock(" " \o Slice(sourceFile.text, node.pos + 1, node.end) \o " ",
                   FALSE, TRUE)

quotedStatement(node) ==
    b_commentBlock(" " \o Slice(sourceFile.text, node.pos, node.end) \o " ",
                   FALSE, TRUE)

quotedInlineNode(node) ==
    b_commentBlock(" " \o Slice(sourceFile.text, node.pos, node.end) \o " ",
                   FALSE, TRUE)

unimplementedStatement(node, description) ==
    LET msg == " tsflower-unimplemented: " \o description \o " "
    IN b_emptyStatement(<<b_commentBlock(msg, TRUE, FALSE), quotedStatement(node)>>)

errorStatement(node, description) ==
    LET msg == " tsflower-error: " \o description \o " "
    IN b_emptyStatement(<<b_commentBlock(msg, TRUE, FALSE), quotedStatement(node)>>)

\* { ...outNode, comments: [...] }
warningStatement(outNode, node, description) ==
    LET msg == " tsflower-warning: " \o description \o " "
        comments == <<b_commentBlock(msg, TRUE, FALSE), quotedStatement(node)>>
    IN [f \in DOMAIN outNode \cup {"comments"} |->
          IF f = "comments" THEN comments ELSE outNode[f]]

\* unimplementedType that attaches the diagnostic only.
unimplementedType_unquoted(node, description) ==
    LET msg == " tsflower-unimplemented: " \o description \o " "
    IN [type |-> "GenericTypeAnnotation", id |-> b_identifier("$FlowFixMe"),
        typeParameters |-> Null,
        comments |-> <<b_commentBlock(msg, FALSE, TRUE)>>]

unimplementedType(node, description) ==
    LET msg == " tsflower-unimplemented: " \o description \o " "
    IN [type |-> "GenericTypeAnnotation", id |-> b_identifier("$FlowFixMe"),
        typeParameters |-> Null,
        comments |-> <<quotedInlineNode(node), b_commentBlock(msg, FALSE, TRUE)>>]

errorType(node, description) ==
    LET msg == " tsflower-error: " \o description \o " "
    IN [type |-> "GenericTypeAnnotation", id |-> b_identifier("$FlowFixMe"),
        typeParameters |-> Null,
        comments |-> <<quotedInlineNode(node), b_commentBlock(msg, FALSE, TRUE)>>]

\* crudeError(node): never returns.  The location suffix of the message is
\* kept symbolic as the node's offsets.
crudeError(node) ==
    Throw("Internal error on " \o node.kind \o " at " \o sourceFile.fileName
          \o ":" \o ToString(node.pos) \o "-" \o ToString(node.end))

\* The capability object convertSourceFile hands to every macro.
converter == {"convertType", "errorType", "unimplementedType", "crudeError"}

\* converter.method(...): calling a property the object lacks is a TypeError.
Invoke(conv, method, result) ==
    IF method \in conv
    THEN result
    ELSE Throw("converter." \o method \o " is not a function")

convertIdentifier(node) ==
    IF Has(node, "text") THEN b_identifier(node.text) ELSE BuilderError("name")

convertIdentifierTyped(node, type) ==
    IF IsUndefined(type)
    THEN convertIdentifier(node)
    ELSE IF Has(node, "text")
         THEN b_identifierTyped(node.text, b_typeAnnotation(type))
         ELSE BuilderError("name")

\* convertEntityNameAsType that keeps the last name of a qualified name only.
convertEntityNameAsType_unqualified(node) ==
    IF ts_isIdentifier(node) THEN convertIdentifier(node)
    ELSE IF ts_isQualifiedName(node) THEN convertIdentifier(node.right)
    ELSE convertIdentifier(node.name)

RECURSIVE convertEntityNameAsType(_)
convertEntityNameAsType(node) ==
    IF ts_isIdentifier(node) THEN convertIdentifier(node)
    ELSE IF ts_isQualifiedName(node)
    THEN LET qualified(q, id) == Propagate(<<q, id>>, b_qualifiedTypeIdentifier(q, id))
         IN qualified(convertEntityNameAsType(node.left), convertIdentifier(node.right))
    ELSE LET qualified(q, id) == Propagate(<<q, id>>, b_qualifiedTypeIdentifier(q, id))
         IN qualified(convertEntityNameAsType(node.expression),
                      convertIdentifier(node.name))

----------------------------------------------------------------------------
(* Rewrite table and resolver *)

mkFixedName(name) == [kind |-> "FixedName", name |-> name]

mkTypeReferenceMacro(convert) == [kind |-> "TypeReferenceMacro", convert |-> convert]

defaultLibraryRewrites ==
    [types |-> [Readonly |-> mkFixedName("$ReadOnly"),
                ReadonlyArray |-> mkFixedName("$ReadOnlyArray"),
                Omit |-> mkTypeReferenceMacro("convertOmit")]]

globalRewrites ==
    [namespaces |->
       [JSX |-> [types |-> [Element |-> mkTypeReferenceMacro("convertJsxElement")]]]]

libraryRewrites ==
    [react |-> [types |-> [Component |-> mkTypeReferenceMacro("convertReactComponent"),
                           ReactElement |-> mkTypeReferenceMacro("convertReactElement")]]]

\* The mapper's answer for a rewrite rule: MapResultType.FixedName with the
\* name, or MapResultType.TypeReferenceMacro with the macro.
MapResult(rule) ==
    IF rule.kind = "FixedName"
    THEN [type |-> "FixedName", name |-> rule.name]
    ELSE [type |-> "TypeReferenceMacro", convert |-> rule.convert]

\* mapper.getSymbol(symbol).  A symbol is identified by where it is declared
\* ('origin': the default library, the global scope, a library, or the file
\* itself), the namespaces it sits in, and its name.
mapper_getSymbol(symbol) ==
    CASE /\ symbol.origin = "defaultLibrary"
         /\ symbol.namespaces = <<>>
         /\ symbol.name \in DOMAIN defaultLibraryRewrites.types
         -> MapResult(defaultLibraryRewrites.types[symbol.name])
      [] /\ symbol.origin = "global"
         /\ Len(symbol.namespaces) = 1
         /\ symbol.namespaces[1] \in DOMAIN globalRewrites.namespaces
         /\ symbol.name \in DOMAIN globalRewrites.namespaces[symbol.namespaces[1]].types
         -> MapResult(globalRewrites.namespaces[symbol.namespaces[1]].types[symbol.name])
      [] /\ symbol.origin \in DOMAIN libraryRewrites
         /\ symbol.namespaces = <<>>
         /\ symbol.name \in DOMAIN libraryRewrites[symbol.origin].types
         -> MapResult(libraryRewrites[symbol.origin].types[symbol.name])
      [] OTHER -> Undefined

mkError(description) == [kind |-> "error", description |-> description]

mkUnimplemented(description) == [kind |-> "unimplemented", description |-> description]

mkSuccess(result) == [kind |-> "success", result |-> result]

\* A reference shape { id, typeParameters } as handed to mkSuccess.
ReferenceShape(id, typeParameters) == [id |-> id, typeParameters |-> typeParameters]

----------------------------------------------------------------------------
(* Type converter *)

RECURSIVE convertType(_)
RECURSIVE convertFunctionType(_)
RECURSIVE convertTypeLiteral(_)
RECURSIVE convertTypeReference(_)
RECURSIVE convertTypeOperator(_)

\* typeArguments.map(convertType), types.map(convertType), ...
convertTypes(nodes) == [i \in DOMAIN nodes |-> convertType(nodes[i])]

\* convertLiteralType that takes every prefix operator for a minus.
convertLiteralType_anyOperator(node) ==
    CASE node.literal.kind = "NullKeyword" -> b_simple("NullLiteralTypeAnnotation")
      [] node.literal.kind = "FalseKeyword" -> b_booleanLiteralTypeAnnotation(FALSE, "false")
      [] node.literal.kind = "TrueKeyword" -> b_booleanLiteralTypeAnnotation(TRUE, "true")
      [] node.literal.kind = "PrefixUnaryExpression" ->
           IF ~ts_isNumericLiteral(node.literal.operand)
           THEN errorType(node,
                  "LiteralTypeNode with unary-minus of "
                  \o node.literal.operand.kind \o "; expected NumericLiteral")
           ELSE b_numberLiteralTypeAnnotation(-Number(node.literal.operand.text),
                                              node.literal.operand.text)
      [] node.literal.kind = "NumericLiteral" ->
           b_numberLiteralTypeAnnotation(Number(node.literal.text), node.literal.text)
      [] node.literal.kind = "StringLiteral" ->
           b_stringLiteralTypeAnnotation(node.literal.text, node.literal.text)
      [] OTHER ->
           errorType(node, "unexpected literal-type kind: " \o node.literal.kind)

convertLiteralType(node) ==
    CASE node.literal.kind = "NullKeyword" -> b_simple("NullLiteralTypeAnnotation")
      [] node.literal.kind = "FalseKeyword" -> b_booleanLiteralTypeAnnotation(FALSE, "false")
      [] node.literal.kind = "TrueKeyword" -> b_booleanLiteralTypeAnnotation(TRUE, "true")
      [] node.literal.kind = "PrefixUnaryExpression" ->
           LET literal == node.literal
           IN IF literal.operator # "MinusToken"
              THEN errorType(node,
                     "LiteralTypeNode with PrefixUnaryExpression operator "
                     \o literal.operator \o "; expected MinusToken")
              ELSE IF ~ts_isNumericLiteral(literal.operand)
              THEN errorType(node,
                     "LiteralTypeNode with unary-minus of "
                     \o literal.operand.kind \o "; expected NumericLiteral")
              ELSE b_numberLiteralTypeAnnotation(-Number(literal.operand.text),
                                                 literal.operand.text)
      [] node.literal.kind = "NumericLiteral" ->
           b_numberLiteralTypeAnnotation(Number(node.literal.text), node.literal.text)
      [] node.literal.kind = "StringLiteral" ->
           b_stringLiteralTypeAnnotation(node.literal.text, node.literal.text)
      [] OTHER ->
           errorType(node, "unexpected literal-type kind: " \o node.literal.kind)

convertTypeOperator(node) ==
    CASE node.operator = "KeyOfKeyword" ->
           LET keys(t) ==
                   Propagate(<<t>>,
                     b_genericTypeAnnotation(b_identifier("$Keys"),
                                             b_typeParameterInstantiation(<<t>>)))
           IN keys(convertType(node.type))
      [] node.operator \in {"UniqueKeyword", "ReadonlyKeyword"} ->
           unimplementedType(node, "type operator: " \o node.operator)
      [] OTHER ->
           errorType(node, "unexpected type operator: " \o node.operator)

convertTypeArguments(typeName, typeArguments) ==
    IF ~IsUndefined(typeArguments)
    THEN LET instantiation(args) == Propagate(args, b_typeParameterInstantiation(args))
         IN instantiation(convertTypes(typeArguments.items))
    ELSE LET elided(symbol) ==
                 IF /\ ~IsUndefined(symbol)
                    /\ some(Opt(symbol, "declarations"),
                            {decl \in Range(symbol.declarations) :
                               Has(decl, "typeParameters")})
                 THEN b_typeParameterInstantiation(<<>>)
                 ELSE Null
         IN elided(checker_getSymbolAtLocation(typeName))

(* Macros of the rewrite table.  Each gets the capability object, the name
   node and the raw type arguments (undefined, or the array). *)

convertOmit(conv, typeName, typeArguments) ==
    IF IsUndefined(typeArguments) \/ typeArguments.length # 2
    THEN mkError("bad Omit: "
                 \o ToString(IF IsUndefined(typeArguments) THEN 0
                             ELSE typeArguments.length)
                 \o " arguments (expected 2)")
    ELSE
    LET isStringLiteralType(t) == ts_isLiteralTypeNode(t) /\ ts_isStringLiteral(t.literal)
        exactObject(properties) ==
            b_objectTypeAnnotation(properties, <<>>, <<>>, TRUE, FALSE)
        mixedProperty(t) ==
            b_objectTypeProperty(b_stringLiteral(t.literal.text),
                                 b_simple("MixedTypeAnnotation"), FALSE)
        indexed(key) ==
            Propagate(<<key>>,
              b_objectTypeAnnotation(
                <<>>,
                <<b_objectTypeIndexer(b_identifier("key"), key,
                                      b_simple("MixedTypeAnnotation"))>>,
                <<>>, TRUE, FALSE))
        keysType == typeArguments.items[2]
        diff(subtrahend, object) ==
            Propagate(<<subtrahend, object>>,
              mkSuccess(ReferenceShape(b_identifier("$Diff"),
                                       b_typeParameterInstantiation(<<object, subtrahend>>))))
    IN diff(IF isStringLiteralType(keysType)
            THEN exactObject(<<mixedProperty(keysType)>>)
            ELSE IF /\ ts_isUnionTypeNode(keysType)
                    /\ \A i \in DOMAIN keysType.types : isStringLiteralType(keysType.types[i])
            THEN exactObject([i \in DOMAIN keysType.types |->
                                mixedProperty(keysType.types[i])])
            ELSE indexed(Invoke(conv, "convertType", convertType(keysType))),
            Invoke(conv, "convertType", convertType(typeArguments.items[1])))

convertReactComponent(conv, typeName, typeArguments) ==
    IF (IF IsUndefined(typeArguments) THEN 0 ELSE typeArguments.length) > 2
    THEN mkError("bad React.Component: "
                 \o ToString(IF IsUndefined(typeArguments) THEN 0
                             ELSE typeArguments.length)
                 \o " arguments (expected 0-2)")
    ELSE
    LET component(args, id) ==
            Propagate(args \o <<id>>,
              mkSuccess(ReferenceShape(id, b_typeParameterInstantiation(args))))
        items == IF IsUndefined(typeArguments) THEN <<>> ELSE typeArguments.items
    IN component(<<IF Len(items) >= 1
                   THEN Invoke(conv, "convertType", convertType(items[1]))
                   ELSE b_objectTypeAnnotation(<<>>, <<>>, <<>>, FALSE, TRUE)>>
                 \o (IF Len(items) >= 2
                     THEN <<Invoke(conv, "convertType", convertType(items[2]))>>
                     ELSE <<>>),
                 Invoke(conv, "convertEntityNameAsType",
                        convertEntityNameAsType(typeName)))

\* convertReactElement that, given two arguments, takes the first one.
convertReactElement_props(conv, typeName, typeArguments) ==
    IF (IF IsUndefined(typeArguments) THEN 0 ELSE typeArguments.length) > 2
    THEN mkError("bad React.Element: " \o ToString(typeArguments.length)
                 \o " arguments (expected 0-2)")
    ELSE
    LET componentType(propsType) ==
            Propagate(<<propsType>>,
              b_genericTypeAnnotation(
                b_identifier("React$ComponentType"),
                b_typeParameterInstantiation(<<propsType>>)))
        items == IF IsUndefined(typeArguments) THEN <<>> ELSE typeArguments.items
        element(args) ==
            Propagate(args,
              mkSuccess(ReferenceShape(b_identifier("React$Element"),
                                       b_typeParameterInstantiation(args))))
    IN element(IF Len(items) = 0
               THEN <<b_genericTypeAnnotation(b_identifier("React$ElementType"), Null)>>
               ELSE IF Len(items) = 1
               THEN <<componentType(Invoke(conv, "convertType", convertType(items[1])))>>
               ELSE <<Invoke(conv, "convertType", convertType(items[1]))>>)

convertReactElement(conv, typeName, typeArguments) ==
    IF (IF IsUndefined(typeArguments) THEN 0 ELSE typeArguments.length) > 2
    THEN mkError("bad React.Element: "
                 \o ToString(IF IsUndefined(typeArguments) THEN 0
                             ELSE typeArguments.length)
                 \o " arguments (expected 0-2)")
    ELSE
    LET componentType(propsType) ==
            Propagate(<<propsType>>,
              b_genericTypeAnnotation(
                b_identifier("React$ComponentType"),
                b_typeParameterInstantiation(<<propsType>>)))
        items == IF IsUndefined(typeArguments) THEN <<>> ELSE typeArguments.items
        element(args) ==
            Propagate(args,
              mkSuccess(ReferenceShape(b_identifier("React$Element"),
                                       b_typeParameterInstantiation(args))))
    IN element(IF Len(items) = 0
               THEN <<b_genericTypeAnnotation(b_identifier("React$ElementType"), Null)>>
               ELSE IF Len(items) = 1
               THEN <<componentType(Invoke(conv, "convertType", convertType(items[1])))>>
               ELSE <<Invoke(conv, "convertType", convertType(items[2]))>>)

\* convertJsxElement that expands to the element type without an argument.
convertJsxElement_bare ==
    mkSuccess(ReferenceShape(b_identifier("React$Element"),
                             b_typeParameterInstantiation(
                               <<b_genericTypeAnnotation(b_identifier("React$ElementType"),
                                                         Null)>>)))

convertJsxElement ==
    mkSuccess(ReferenceShape(b_identifier("React$Element"),
                             b_typeParameterInstantiation(<<b_simple("AnyTypeAnnotation")>>)))

\* mapped.convert(converter, typeName, typeArguments)
ApplyMacro(convert, conv, typeName, typeArguments) ==
    CASE convert = "convertOmit" -> convertOmit(conv, typeName, typeArguments)
      [] convert = "convertReactComponent" ->
           convertReactComponent(conv, typeName, typeArguments)
      [] convert = "convertReactElement" ->
           convertReactElement(conv, typeName, typeArguments)
      [] convert = "convertJsxElement" -> convertJsxElement

convertTypeReferenceLike(typeName, typeArguments) ==
    LET reference(id, typeParameters) ==
            Propagate(<<id, typeParameters>>,
                      mkSuccess(ReferenceShape(id, typeParameters)))
        symbol == checker_getSymbolAtLocation(typeName)
        mapped == IF IsUndefined(symbol) THEN Undefined ELSE mapper_getSymbol(symbol)
        type == IF IsUndefined(mapped) THEN "undefined" ELSE mapped.type
    IN CASE type = "FixedName" ->
              reference(b_identifier(mapped.name),
                        convertTypeArguments(typeName, typeArguments))
         [] type = "TypeReferenceMacro" ->
              ApplyMacro(mapped.convert, converter, typeName, typeArguments)
         [] OTHER ->
              reference(convertEntityNameAsType(typeName),
                        convertTypeArguments(typeName, typeArguments))

\* convertTypeReference that reports every failed outcome as unimplemented.
convertTypeReference_lax(node) ==
    LET outcome(result) ==
            IF IsThrow(result) THEN result
            ELSE IF result.kind # "success"
            THEN unimplementedType(node, result.description)
            ELSE b_genericTypeAnnotation(result.result.id, result.result.typeParameters)
    IN outcome(convertTypeReferenceLike(node.typeName, Opt(node, "typeArguments")))

convertTypeReference(node) ==
    LET outcome(result) ==
            IF IsThrow(result) THEN result
            ELSE IF result.kind # "success"
            THEN IF result.kind = "error"
                 THEN errorType(node, result.description)
                 ELSE unimplementedType(node, result.description)
            ELSE b_genericTypeAnnotation(result.result.id, result.result.typeParameters)
    IN outcome(convertTypeReferenceLike(node.typeName, Opt(node, "typeArguments")))

convertUnionType(node) ==
    LET union(types) == Propagate(types, b_unionTypeAnnotation(types))
    IN union(convertTypes(node.types))

convertTypeParameterDeclaration(params) ==
    IF IsUndefined(params) THEN Null
    ELSE LET annotated(t) == Propagate(<<t>>, b_typeAnnotation(t))
             typeParameter(name, bound, default) ==
                 Propagate(<<bound, default>>, b_typeParameter(name, Null, bound, default))
             declaration(converted) ==
                 Propagate(converted, b_typeParameterDeclaration(converted))
         IN declaration([i \in DOMAIN params.items |->
                           typeParameter(
                             params.items[i].name.text,
                             IF ~Has(params.items[i], "constraint") THEN Null
                             ELSE annotated(convertType(params.items[i].constraint)),
                             IF ~Has(params.items[i], "default") THEN Null
                             ELSE convertType(params.items[i].default))])

\* The parameter loop that gives a rest parameter without a type the type
\* of an ordinary one, any.
RECURSIVE convertFunctionTypeParams_restAny(_, _, _)
convertFunctionTypeParams_restAny(parameters, i, params) ==
    IF i > Len(parameters)
    THEN [params |-> params, restParam |-> Null]
    ELSE
    LET nameOf(param) == IF ~ts_isIdentifier(param.name) THEN Null
                         ELSE convertIdentifier(param.name)
        rest(name, t) ==
            Propagate(<<name, t>>,
              [params |-> params,
               restParam |-> b_functionTypeParam(name, t, FALSE)])
        ordinary(name, t, optional) ==
            Propagate(<<name, t>>,
              convertFunctionTypeParams_restAny(
                parameters, i + 1,
                Append(params, b_functionTypeParam(name, t, optional))))
    IN IF Has(parameters[i], "dotDotDotToken")
       THEN rest(nameOf(parameters[i]),
                 IF Has(parameters[i], "type") THEN convertType(parameters[i].type)
                 ELSE b_simple("AnyTypeAnnotation"))
       ELSE ordinary(nameOf(parameters[i]),
                     IF Has(parameters[i], "type") THEN convertType(parameters[i].type)
                     ELSE b_simple("AnyTypeAnnotation"),
                     Has(parameters[i], "questionToken"))

\* The parameter loop that goes on after a rest parameter: the parameters
\* after it become ordinary parameters.
RECURSIVE convertFunctionTypeParams_continue(_, _, _)
convertFunctionTypeParams_continue(parameters, i, params) ==
    IF i > Len(parameters)
    THEN [params |-> params, restParam |-> Null]
    ELSE
    LET nameOf(param) == IF ~ts_isIdentifier(param.name) THEN Null
                         ELSE convertIdentifier(param.name)
        rest(name, t, others) ==
            Propagate(<<name, t, others>>,
              [params |-> others.params,
               restParam |-> b_functionTypeParam(name, t, FALSE)])
        ordinary(name, t, optional) ==
            Propagate(<<name, t>>,
              convertFunctionTypeParams_continue(
                parameters, i + 1,
                Append(params, b_functionTypeParam(name, t, optional))))
    IN IF Has(parameters[i], "dotDotDotToken")
       THEN rest(nameOf(parameters[i]),
                 IF Has(parameters[i], "type") THEN convertType(parameters[i].type)
                 ELSE b_arrayTypeAnnotation(b_simple("AnyTypeAnnotation")),
                 convertFunctionTypeParams_continue(parameters, i + 1, params))
       ELSE ordinary(nameOf(parameters[i]),
                     IF Has(parameters[i], "type") THEN convertType(parameters[i].type)
                     ELSE b_simple("AnyTypeAnnotation"),
                     Has(parameters[i], "questionToken"))

\* The parameter loop of convertFunctionType from index i on: the ordinary
\* parameters collected so far in 'params'; stops at the first rest parameter.
RECURSIVE convertFunctionTypeParams(_, _, _)
convertFunctionTypeParams(parameters, i, params) ==
    IF i > Len(parameters)
    THEN [params |-> params, restParam |-> Null]
    ELSE
    LET nameOf(param) == IF ~ts_isIdentifier(param.name) THEN Null
                         ELSE convertIdentifier(param.name)
        rest(name, t) ==
            Propagate(<<name, t>>,
              [params |-> params,
               restParam |-> b_functionTypeParam(name, t, FALSE)])
        ordinary(name, t, optional) ==
            Propagate(<<name, t>>,
              convertFunctionTypeParams(
                parameters, i + 1,
                Append(params, b_functionTypeParam(name, t, optional))))
    IN IF Has(parameters[i], "dotDotDotToken")
       THEN rest(nameOf(parameters[i]),
                 IF Has(parameters[i], "type") THEN convertType(parameters[i].type)
                 ELSE b_arrayTypeAnnotation(b_simple("AnyTypeAnnotation")))
       ELSE ordinary(nameOf(parameters[i]),
                     IF Has(parameters[i], "type") THEN convertType(parameters[i].type)
                     ELSE b_simple("AnyTypeAnnotation"),
                     Has(parameters[i], "questionToken"))

\* convertFunctionType that makes every parameter a required one.
convertFunctionType_required(node) ==
    LET required(params) ==
            [k \in DOMAIN params |-> [params[k] EXCEPT !.optional = FALSE]]
        function(typeParams, loop, resultType) ==
            Propagate(<<typeParams, loop, resultType>>,
              b_functionTypeAnnotation(required(loop.params), resultType,
                                       loop.restParam, typeParams))
    IN function(convertTypeParameterDeclaration(Opt(node, "typeParameters")),
                convertFunctionTypeParams(node.parameters, 1, <<>>),
                IF Has(node, "type") THEN convertType(node.type)
                ELSE b_simple("AnyTypeAnnotation"))

convertFunctionType(node) ==
    LET function(typeParams, loop, resultType) ==
            Propagate(<<typeParams, loop, resultType>>,
              b_functionTypeAnnotation(loop.params, resultType, loop.restParam, typeParams))
    IN function(convertTypeParameterDeclaration(Opt(node, "typeParameters")),
                convertFunctionTypeParams(node.parameters, 1, <<>>),
                IF Has(node, "type") THEN convertType(node.type)
                ELSE b_simple("AnyTypeAnnotation"))

\* The member loop of convertTypeLiteral from index i on.
RECURSIVE convertTypeLiteralMembers(_, _, _)
convertTypeLiteralMembers(node, i, properties) ==
    IF i > Len(node.members)
    THEN b_objectTypeAnnotation(properties, <<>>, <<>>, TRUE, FALSE)
    ELSE
    LET property(key, value, optional) ==
            Propagate(<<key, value>>,
              convertTypeLiteralMembers(
                node, i + 1,
                Append(properties, b_objectTypeProperty(key, value, optional))))
    IN CASE node.members[i].kind = "PropertySignature" ->
              property(convertIdentifier(node.members[i].name),
                       IF Has(node.members[i], "type")
                       THEN convertType(node.members[i].type)
                       ELSE b_simple("AnyTypeAnnotation"),
                       Has(node.members[i], "questionToken"))
         [] node.members[i].kind \in {"CallSignature", "ConstructSignature",
                                      "MethodSignature", "GetAccessor", "SetAccessor",
                                      "IndexSignature"} ->
              unimplementedType(node, "TypeElement kind: " \o node.members[i].kind)
         [] OTHER ->
              errorType(node, "unexpected TypeElement kind: " \o node.members[i].kind)

convertTypeLiteral(node) == convertTypeLiteralMembers(node, 1, <<>>)

convertType(node) ==
    CASE node.kind = "UnknownKeyword" -> b_simple("MixedTypeAnnotation")
      [] node.kind = "AnyKeyword" -> b_simple("AnyTypeAnnotation")
      [] node.kind = "NeverKeyword" -> b_simple("EmptyTypeAnnotation")
      [] node.kind \in {"UndefinedKeyword", "VoidKeyword"} -> b_simple("VoidTypeAnnotation")
      [] node.kind = "BooleanKeyword" -> b_simple("BooleanTypeAnnotation")
      [] node.kind = "NumberKeyword" -> b_simple("NumberTypeAnnotation")
      [] node.kind = "StringKeyword" -> b_simple("StringTypeAnnotation")
      [] node.kind = "ObjectKeyword" ->
           b_objectTypeAnnotation(<<>>, <<>>, <<>>, FALSE, TRUE)
      [] node.kind = "ThisType" -> b_simple("ThisTypeAnnotation")
      [] node.kind = "ParenthesizedType" -> convertType(node.type)
      [] node.kind = "LiteralType" -> convertLiteralType(node)
      [] node.kind = "TypeQuery" ->
           LET typeof(id) ==
                   Propagate(<<id>>,
                     b_typeofTypeAnnotation(b_genericTypeAnnotation(id, Null)))
           IN typeof(convertEntityNameAsType(node.exprName))
      [] node.kind = "TypeOperator" -> convertTypeOperator(node)
      [] node.kind = "TypeReference" -> convertTypeReference(node)
      [] node.kind = "UnionType" -> convertUnionType(node)
      [] node.kind = "IntersectionType" ->
           LET intersection(types) == Propagate(types, b_intersectionTypeAnnotation(types))
           IN intersection(convertTypes(node.types))
      [] node.kind = "IndexedAccessType" ->
           LET elementOf(objectType, indexType) ==
                   Propagate(<<objectType, indexType>>,
                     b_genericTypeAnnotation(
                       b_identifier("$ElementType"),
                       b_typeParameterInstantiation(<<objectType, indexType>>)))
           IN elementOf(convertType(node.objectType), convertType(node.indexType))
      [] node.kind = "ArrayType" ->
           LET array(elementType) ==
                   Propagate(<<elementType>>, b_arrayTypeAnnotation(elementType))
           IN array(convertType(node.elementType))
      [] node.kind = "TupleType" ->
           LET tuple(types) == Propagate(types, b_tupleTypeAnnotation(types))
           IN tuple(convertTypes(node.elements))
      [] node.kind = "FunctionType" -> convertFunctionType(node)
      [] node.kind = "TypeLiteral" -> convertTypeLiteral(node)
      [] node.kind \in {"TypePredicate", "ConstructorType", "OptionalType", "RestType",
                        "ConditionalType", "InferType", "MappedType",
                        "TemplateLiteralType", "TemplateLiteralTypeSpan", "ImportType"} ->
           unimplementedType(node, node.kind)
      [] node.kind = "NamedTupleMember" ->
           errorType(node, "unexpected type kind: " \o node.kind)
      [] OTHER ->
           errorType(node, "unexpected type kind: " \o node.kind)

----------------------------------------------------------------------------
(* Statement / declaration converter *)

\* A Declaration check that knows the ESTree declarations only.
n_Declaration_check_narrow(inner) ==
    inner.type \in {"FunctionDeclaration", "ClassDeclaration"}

\* namedTypes.X.check(node) of ast-types: Declaration and its subtypes.
\* DeclareFunction derives from Statement only.
n_Declaration_check(inner) ==
    inner.type \in {"VariableDeclaration", "FunctionDeclaration", "ClassDeclaration",
                    "ImportDeclaration", "ExportNamedDeclaration",
                    "ExportDefaultDeclaration", "ExportAllDeclaration",
                    "TypeAlias", "DeclareTypeAlias", "OpaqueType", "DeclareOpaqueType",
                    "InterfaceDeclaration", "DeclareInterface", "DeclareClass",
                    "DeclareExportDeclaration", "EnumDeclaration"}

\* ts.SymbolFlags.Value, as the set of the flags it unites.
SymbolFlags_Value ==
    {"FunctionScopedVariable", "BlockScopedVariable", "Property", "EnumMember",
     "ObjectLiteral", "Function", "Class", "Enum", "ValueModule", "Method",
     "GetAccessor", "SetAccessor"}

convertImportDeclaration(node) ==
    IF ~Has(node, "importClause")
    THEN unimplementedStatement(node, "ImportDeclaration with no import clause")
    ELSE IF Has(node.importClause, "modifiers")
    THEN unimplementedStatement(node, "ImportDeclaration with modifiers")
    ELSE
    LET importClause == node.importClause
        default ==
            IF Has(importClause, "name")
            THEN LET local == convertIdentifier(importClause.name)
                 IN <<Propagate(<<local>>,
                        [type |-> "ImportDefaultSpecifier", local |-> local])>>
            ELSE <<>>
        convertBinding(binding) ==
            LET localSymbol == checker_getSymbolAtLocation(binding.name)
                importedSymbol ==
                    IF IsUndefined(localSymbol) \/ ~Has(localSymbol, "aliased")
                    THEN Undefined
                    ELSE localSymbol.aliased   \* checker.getImmediateAliasedSymbol
                isTypeOnly == /\ ~IsUndefined(importedSymbol)
                              /\ importedSymbol.flags \cap SymbolFlags_Value = {}
                imported == convertIdentifier(IF Has(binding, "propertyName")
                                              THEN binding.propertyName
                                              ELSE binding.name)
                local == convertIdentifier(binding.name)
            IN Propagate(<<imported, local>>,
                 [type |-> "ImportSpecifier", imported |-> imported, local |-> local,
                  importKind |-> IF isTypeOnly THEN "type" ELSE "value"])
        named ==
            IF ~Has(importClause, "namedBindings") THEN <<>>
            ELSE IF ts_isNamedImports(importClause.namedBindings)
            THEN [i \in DOMAIN importClause.namedBindings.elements |->
                    convertBinding(importClause.namedBindings.elements[i])]
            ELSE LET local == convertIdentifier(importClause.namedBindings.name)
                 IN <<Propagate(<<local>>,
                        [type |-> "ImportNamespaceSpecifier", local |-> local])>>
        specifiers == default \o named
        source == IF Has(node.moduleSpecifier, "text")
                  THEN b_stringLiteral(node.moduleSpecifier.text)
                  ELSE BuilderError("value")
    IN Propagate(specifiers \o <<source>>,
         [type |-> "ImportDeclaration", specifiers |-> specifiers, source |-> source])

convertExportDeclaration(node) ==
    IF Has(node, "assertClause")
    THEN unimplementedStatement(node, "'export ... from 'foo' assert { ... }'")
    ELSE
    LET source == IF ~Has(node, "moduleSpecifier") THEN Null
                  ELSE IF Has(node.moduleSpecifier, "text")
                  THEN b_stringLiteral(node.moduleSpecifier.text)
                  ELSE BuilderError("value")
    IN IF IsThrow(source) THEN source
       ELSE IF ~Has(node, "exportClause")
       THEN IF source = Null
            THEN errorStatement(node, "expected 'export *' to have 'from'")
            ELSE [type |-> "ExportAllDeclaration", source |-> source, exported |-> Null]
       ELSE IF ts_isNamespaceExport(node.exportClause)
       THEN LET exported == convertIdentifier(node.exportClause.name)
            IN Propagate(<<exported>>,
                 [type |-> "ExportNamedDeclaration", declaration |-> Null,
                  specifiers |-> <<[type |-> "ExportNamespaceSpecifier",
                                    exported |-> exported]>>,
                  source |-> source, exportKind |-> "value"])
       ELSE IF ts_isNamedExports(node.exportClause)
       THEN LET convertSpec(spec) ==
                    LET local == convertIdentifier(IF Has(spec, "propertyName")
                                                   THEN spec.propertyName ELSE spec.name)
                        exported == convertIdentifier(spec.name)
                    IN Propagate(<<local, exported>>,
                         [type |-> "ExportSpecifier", local |-> local,
                          exported |-> exported,
                          exportKind |-> IF spec.isTypeOnly THEN "type" ELSE "value"])
                specifiers == [i \in DOMAIN node.exportClause.elements |->
                                 convertSpec(node.exportClause.elements[i])]
            IN Propagate(specifiers,
                 [type |-> "ExportNamedDeclaration", declaration |-> Null,
                  specifiers |-> specifiers, source |-> source,
                  exportKind |-> IF node.isTypeOnly THEN "type" ELSE "value"])
       ELSE errorStatement(node, "unexpected export clause: " \o node.exportClause.kind)

convertExportAssignment(node) ==
    IF Has(node, "isExportEquals")
    THEN unimplementedStatement(node, "\"export =\"")
    ELSE IF ~ts_isIdentifier(node.expression)
    THEN unimplementedStatement(node, "\"export default\" with non-identifier")
    ELSE LET declaration == convertIdentifier(node.expression)
         IN Propagate(<<declaration>>,
              [type |-> "ExportDefaultDeclaration", declaration |-> declaration])

convertVariableStatement(node) ==
    LET kindOf(flags) == IF flags = "Const" THEN "var"
                         ELSE IF flags = "Let" THEN "let"
                         ELSE "var"
        declarator(type, id) ==
            Propagate(<<type, id>>,
              [type |-> "VariableDeclarator", id |-> id, init |-> Null])
        typed(decl, type) == declarator(type, convertIdentifierTyped(decl.name, type))
        declaration(declarations) ==
            Propagate(declarations,
              [type |-> "VariableDeclaration",
               kind |-> kindOf(node.declarationList.flags),
               declarations |-> declarations])
    IN declaration([i \in DOMAIN node.declarationList.declarations |->
                      typed(node.declarationList.declarations[i],
                            IF Has(node.declarationList.declarations[i], "type")
                            THEN convertType(node.declarationList.declarations[i].type)
                            ELSE Undefined)])

convertTypeAliasDeclaration(node) ==
    LET alias(id, typeParameters, right) ==
            Propagate(<<id, typeParameters, right>>,
              [type |-> "TypeAlias", id |-> id, typeParameters |-> typeParameters,
               right |-> right])
    IN alias(convertIdentifier(node.name),
             convertTypeParameterDeclaration(Opt(node, "typeParameters")),
             convertType(node.type))

\* convertFunctionDeclaration that takes the unimplemented path on 'export'
\* alone.
convertFunctionDeclaration_exportOnly(node) ==
    IF ~Has(node, "name")
    THEN IF hasModifier(node, "ExportKeyword")
         THEN unimplementedStatement(node, "'export default function' with no name")
         ELSE errorStatement(node, "expected name on FunctionDeclaration")
    ELSE LET declare(type, id) ==
                 Propagate(<<type, id>>, [type |-> "DeclareFunction", id |-> id])
             typed(type) == declare(type, convertIdentifierTyped(node.name, type))
         IN typed(convertFunctionType(node))

convertFunctionDeclaration(node) ==
    IF ~Has(node, "name")
    THEN IF hasModifier(node, "ExportKeyword") /\ hasModifier(node, "DefaultKeyword")
         THEN unimplementedStatement(node, "'export default function' with no name")
         ELSE errorStatement(node, "expected name on FunctionDeclaration")
    ELSE LET declare(type, id) ==
                 Propagate(<<type, id>>, [type |-> "DeclareFunction", id |-> id])
             typed(type) == declare(type, convertIdentifierTyped(node.name, type))
         IN typed(convertFunctionType(node))

\* convertName that gives a private name a key like any other name.
convertName_keepPrivate(node) ==
    IF ts_isIdentifier(node) \/ ts_isPrivateIdentifier(node) THEN convertIdentifier(node)
    ELSE Throw("unimplemented: PropertyName kind " \o node.kind)

\* convertName inside convertClassLikeDeclaration: the key, Null for a
\* private name, or an exception for any other property-name kind.
convertName(node) ==
    IF ts_isIdentifier(node) THEN convertIdentifier(node)
    ELSE IF ts_isPrivateIdentifier(node) THEN Null
    ELSE Throw("unimplemented: PropertyName kind " \o node.kind)

\* The loop over the bases of one 'extends' clause from index i on.  Yields
\* the statement the loop returns with, an exception, or the list to go on with.
RECURSIVE convertExtendsBases(_, _, _, _)
convertExtendsBases(node, types, i, extends) ==
    IF i > Len(types) THEN [extends |-> extends]
    ELSE
    LET extended(id, typeParameters) ==
            Propagate(<<id, typeParameters>>,
              convertExtendsBases(
                node, types, i + 1,
                Append(extends,
                       [type |-> "InterfaceExtends", id |-> id,
                        typeParameters |-> typeParameters])))
        expression == types[i].expression
    IN IF ~ts_isIdentifier(expression) /\ ~ts_isPropertyAccessExpression(expression)
       THEN errorStatement(node, "unexpected 'extends' base kind: " \o expression.kind)
       ELSE IF ~isEntityNameOrEntityNameExpression(expression)
       THEN errorStatement(node, "'extends' not an entity name")
       ELSE extended(convertEntityNameAsType(expression),
                     convertTypeArguments(expression, Opt(types[i], "typeArguments")))

\* The loop over the heritage clauses that passes over an 'implements' clause.
RECURSIVE convertHeritageClauses_skipImplements(_, _, _, _)
convertHeritageClauses_skipImplements(node, clauses, i, extends) ==
    IF i > Len(clauses) THEN [extends |-> extends]
    ELSE IF clauses[i].token = "ExtendsKeyword"
    THEN LET next(bases) ==
                 IF Has(bases, "type") THEN bases
                 ELSE convertHeritageClauses_skipImplements(node, clauses, i + 1,
                                                            bases.extends)
         IN next(convertExtendsBases(node, clauses[i].types, 1, extends))
    ELSE convertHeritageClauses_skipImplements(node, clauses, i + 1, extends)

\* The loop over node.heritageClauses ?? [] from index i on.
RECURSIVE convertHeritageClauses(_, _, _, _)
convertHeritageClauses(node, clauses, i, extends) ==
    IF i > Len(clauses) THEN [extends |-> extends]
    ELSE IF clauses[i].token = "ExtendsKeyword"
    THEN LET next(bases) ==
                 IF Has(bases, "type") THEN bases
                 ELSE convertHeritageClauses(node, clauses, i + 1, bases.extends)
         IN next(convertExtendsBases(node, clauses[i].types, 1, extends))
    ELSE unimplementedStatement(node, "class 'implements'")

\* The loop over node.members from index i on.
RECURSIVE convertMembers(_, _, _)
convertMembers(node, i, properties) ==
    IF i > Len(node.members) THEN [properties |-> properties]
    ELSE
    LET property(key, value, optional) ==
            Propagate(<<value>>,
              convertMembers(node, i + 1,
                Append(properties, b_objectTypeProperty(key, value, optional))))
        keyed(key, continued) ==
            IF IsThrow(key) THEN key
            ELSE IF key = Null THEN convertMembers(node, i + 1, properties)
            ELSE continued
        member == node.members[i]
    IN CASE member.kind = "Constructor" ->
              property(b_identifier("constructor"), convertFunctionType(member), FALSE)
         [] member.kind \in {"PropertySignature", "PropertyDeclaration"} ->
              keyed(convertName(member.name),
                    property(convertName(member.name),
                             IF Has(member, "type") THEN convertType(member.type)
                             ELSE b_simple("AnyTypeAnnotation"),
                             Has(member, "questionToken")))
         [] member.kind \in {"MethodSignature", "MethodDeclaration"} ->
              keyed(convertName(member.name),
                    property(convertName(member.name), convertFunctionType(member),
                             Has(member, "questionToken")))
         [] member.kind \in {"CallSignature", "ConstructSignature",
                             "SemicolonClassElement", "GetAccessor", "SetAccessor",
                             "IndexSignature", "ClassStaticBlockDeclaration"} ->
              unimplementedStatement(node,
                "ClassElement|TypeElement kind: " \o member.kind)
         [] OTHER ->
              errorStatement(node,
                "unexpected ClassElement|TypeElement kind: " \o member.kind)

convertClassLikeDeclaration(node) ==
    IF ~Has(node, "name")
    THEN IF hasModifier(node, "ExportKeyword") /\ hasModifier(node, "DefaultKeyword")
         THEN unimplementedStatement(node, "'export default class' with no name")
         ELSE errorStatement(node, "anonymous class not in 'export default'")
    ELSE
    LET declaration(typeParameters, heritage, members, id) ==
            IF IsThrow(typeParameters) THEN typeParameters
            ELSE IF Has(heritage, "type") THEN heritage
            ELSE IF Has(members, "type") THEN members
            ELSE Propagate(<<id>>,
                   [type |-> IF ts_isInterfaceDeclaration(node) THEN "DeclareInterface"
                             ELSE "DeclareClass",
                    id |-> id,
                    typeParameters |-> typeParameters,
                    extends |-> heritage.extends,
                    body |-> b_objectTypeAnnotation(members.properties, <<>>, <<>>,
                                                    FALSE, FALSE)])
    IN declaration(convertTypeParameterDeclaration(Opt(node, "typeParameters")),
                   convertHeritageClauses(
                     node,
                     IF Has(node, "heritageClauses") THEN node.heritageClauses ELSE <<>>,
                     1, <<>>),
                   convertMembers(node, 1, <<>>),
                   convertIdentifier(node.name))

convertStatementExceptExport(node) ==
    CASE node.kind = "ImportDeclaration" -> convertImportDeclaration(node)
      [] node.kind = "ExportDeclaration" -> convertExportDeclaration(node)
      [] node.kind = "ExportAssignment" -> convertExportAssignment(node)
      [] node.kind = "VariableStatement" -> convertVariableStatement(node)
      [] node.kind = "TypeAliasDeclaration" -> convertTypeAliasDeclaration(node)
      [] node.kind = "FunctionDeclaration" -> convertFunctionDeclaration(node)
      [] node.kind \in {"ClassDeclaration", "InterfaceDeclaration"} ->
           convertClassLikeDeclaration(node)
      [] node.kind \in {"Block", "EmptyStatement", "EnumDeclaration", "ModuleDeclaration",
                        "NamespaceExportDeclaration", "ImportEqualsDeclaration",
                        "MissingDeclaration"} ->
           unimplementedStatement(node, node.kind)
      [] node.kind \in {"ExpressionStatement", "IfStatement", "DoStatement",
                        "WhileStatement", "ForStatement", "ForInStatement",
                        "ForOfStatement", "ContinueStatement", "BreakStatement",
                        "ReturnStatement", "WithStatement", "SwitchStatement",
                        "LabeledStatement", "ThrowStatement", "TryStatement",
                        "DebuggerStatement", "CaseBlock"} ->
           unimplementedStatement(node, node.kind)
      [] node.kind \in {"VariableDeclaration", "VariableDeclarationList", "ModuleBlock",
                        "ImportClause", "NamespaceImport", "NamedImports",
                        "ImportSpecifier", "NamedExports", "NamespaceExport",
                        "ExportSpecifier"} ->
           errorStatement(node, "unexpected statement kind: " \o node.kind)
      [] OTHER ->
           errorStatement(node, "unexpected statement kind: " \o node.kind)

\* modifyStatementAsExport that marks no export as the default one.
modifyStatementAsExport_named(inner, node) ==
    IF inner.type \in {"DeclareFunction", "DeclareClass"}
    THEN [type |-> "DeclareExportDeclaration", default |-> FALSE,
          declaration |-> inner]
    ELSE IF inner.type = "DeclareInterface"
    THEN [type |-> "ExportNamedDeclaration",
          declaration |-> [type |-> "InterfaceDeclaration", id |-> inner.id,
                           typeParameters |-> inner.typeParameters,
                           extends |-> inner.extends, body |-> inner.body],
          specifiers |-> <<>>, source |-> Null, exportKind |-> "value"]
    ELSE IF n_Declaration_check(inner)
    THEN [type |-> "ExportNamedDeclaration", declaration |-> inner,
          specifiers |-> <<>>, source |-> Null, exportKind |-> "value"]
    ELSE IF inner.type = "EmptyStatement"
    THEN inner
    ELSE warningStatement(inner, node,
           "statement has \"export\", but conversion not a declaration")

modifyStatementAsExport(inner, node) ==
    IF inner.type \in {"DeclareFunction", "DeclareClass"}
    THEN [type |-> "DeclareExportDeclaration",
          default |-> hasModifier(node, "DefaultKeyword"),
          declaration |-> inner]
    ELSE IF inner.type = "DeclareInterface"
    THEN [type |-> "ExportNamedDeclaration",
          declaration |-> [type |-> "InterfaceDeclaration", id |-> inner.id,
                           typeParameters |-> inner.typeParameters,
                           extends |-> inner.extends, body |-> inner.body],
          specifiers |-> <<>>, source |-> Null, exportKind |-> "value"]
    ELSE IF n_Declaration_check(inner)
    THEN [type |-> "ExportNamedDeclaration", declaration |-> inner,
          specifiers |-> <<>>, source |-> Null, exportKind |-> "value"]
    ELSE IF inner.type = "EmptyStatement"
    THEN inner
    ELSE warningStatement(inner, node,
           "statement has \"export\", but conversion not a declaration")

\* The body of the try block of convertStatement: what it returns, or throws.
convertStatement_try(node) ==
    LET exported(inner) ==
            IF IsThrow(inner) THEN inner
            ELSE IF hasModifier(node, "ExportKeyword")
            THEN modifyStatementAsExport(inner, node)
            ELSE inner
    IN exported(convertStatementExceptExport(node))

\* convertStatement without its catch clause.
convertStatement_uncaught(node) == convertStatement_try(node)

\* try { ... } catch (err) { return errorStatement(node, ...) }
convertStatement(node) ==
    LET caught(result) ==
            IF IsThrow(result)
            THEN errorStatement(node, "internal error: " \o result.message)
            ELSE result
    IN caught(convertStatement_try(node))

----------------------------------------------------------------------------
(* The file convertSourceFile returns *)

headerComment == " @flow\n * @generated by TsFlower\n "

\* b.file over the statements that are not empty statements only.
b_file_dropping(statements, name) ==
    [type |-> "File",
     program |-> [type |-> "Program",
                  comments |-> <<b_commentBlock(headerComment, TRUE, FALSE)>>,
                  body |-> SelectSeq(statements, LAMBDA s : s.type # "EmptyStatement")],
     name |-> name]

\* b.file(b.program.from({ comments, body }), sourceFile.fileName)
b_file(statements, name) ==
    [type |-> "File",
     program |-> [type |-> "Program",
                  comments |-> <<b_commentBlock(headerComment, TRUE, FALSE)>>,
                  body |-> statements],
     name |-> name]

\* convertSourceFile(sourceFile, mapper, program): sourceFile.statements.map(
\* convertStatement) put into the file.
convertSourceFile(file) ==
    LET built(statements) == Propagate(statements, b_file(statements, file.fileName))
    IN built([i \in DOMAIN file.statements |-> convertStatement(file.statements[i])])

----------------------------------------------------------------------------
(* The earlier convert.ts.  Its errorStatement, errorType, quotedStatement,
   quotedInlineNode, convertIdentifier, headerComment and the shape of the
   file it returns have the same text as the later one's and are used from
   above; everything that differs is given here, under the name with _v1. *)

unimplementedStatement_v1(node) ==
    LET msg == " tsflower-unimplemented: " \o node.kind \o " "
    IN b_emptyStatement(<<b_commentBlock(msg, TRUE, FALSE), quotedStatement(node)>>)

unimplementedType_v1(node) ==
    LET msg == " tsflower-unimplemented: " \o node.kind \o " "
    IN [type |-> "GenericTypeAnnotation", id |-> b_identifier("$FlowFixMe"),
        typeParameters |-> Null,
        comments |-> <<quotedInlineNode(node), b_commentBlock(msg, FALSE, TRUE)>>]

crudeError_v1(node) ==
    Throw("Internal error on " \o node.kind \o " at " \o sourceFile.fileName
          \o ":" \o ToString(node.pos) \o ":" \o ToString(node.end) \o ":")

\* What an ast-types builder raises when it is given, for a field that takes
\* a Flow type, a value that is none.
BuilderMismatch == Throw("value does not match the type of the field")

RECURSIVE convertType_v1(_)
RECURSIVE convertFunctionType_v1(_)
RECURSIVE convertTypeLiteral_v1(_)
RECURSIVE convertTypeReference_v1(_)

convertTypes_v1(nodes) == [i \in DOMAIN nodes |-> convertType_v1(nodes[i])]

convertLiteralType_v1(node) ==
    CASE node.literal.kind = "NullKeyword" -> b_simple("NullLiteralTypeAnnotation")
      [] node.literal.kind = "FalseKeyword" -> b_booleanLiteralTypeAnnotation(FALSE, "false")
      [] node.literal.kind = "TrueKeyword" -> b_booleanLiteralTypeAnnotation(TRUE, "true")
      [] node.literal.kind = "PrefixUnaryExpression" ->
           LET literal == node.literal
           IN IF \/ literal.operator # "MinusToken"
                 \/ ~ts_isNumericLiteral(literal.operand)
              THEN crudeError_v1(node)
              ELSE b_numberLiteralTypeAnnotation(-Number(literal.operand.text),
                                                 literal.operand.text)
      [] node.literal.kind = "NumericLiteral" ->
           b_numberLiteralTypeAnnotation(Number(node.literal.text), node.literal.text)
      [] node.literal.kind = "StringLiteral" ->
           b_stringLiteralTypeAnnotation(node.literal.text, node.literal.text)
      [] OTHER ->
           errorType(node, "unexpected literal-type kind: " \o node.literal.kind)

RECURSIVE convertEntityNameAsType_v1(_)
convertEntityNameAsType_v1(node) ==
    IF ts_isIdentifier(node) THEN convertIdentifier(node)
    ELSE LET qualified(q, id) == Propagate(<<q, id>>, b_qualifiedTypeIdentifier(q, id))
         IN qualified(convertEntityNameAsType_v1(node.left), convertIdentifier(node.right))

\* !typeArguments ? null : b.typeParameterInstantiation(typeArguments.map(convertType))
convertTypeArguments_v1(typeArguments) ==
    IF IsUndefined(typeArguments) THEN Null
    ELSE LET instantiation(args) == Propagate(args, b_typeParameterInstantiation(args))
         IN instantiation(convertTypes_v1(typeArguments.items))

\* mapped.convert(converter, node) hands a macro of the rewrite table the
\* reference node where it takes the name, and nothing where it takes the
\* type arguments.  What a macro returns is an outcome record and no Flow
\* type, so the builder that receives it from convertType raises.
convertTypeReference_v1(node) ==
    LET generic(id, typeParameters) ==
            Propagate(<<id, typeParameters>>, b_genericTypeAnnotation(id, typeParameters))
        fixed(mapped, typeParameters) ==
            Propagate(<<typeParameters>>,
              b_genericTypeAnnotation(b_identifier(mapped.name), typeParameters))
        returned(outcome) == IF IsThrow(outcome) THEN outcome ELSE BuilderMismatch
        mappedOf(symbol) ==
            IF IsUndefined(symbol) THEN Undefined ELSE mapper_getSymbol(symbol)
        typeOf(mapped) == IF IsUndefined(mapped) THEN "undefined" ELSE mapped.type
    IN CASE typeOf(mappedOf(checker_getSymbolAtLocation(node.typeName))) = "FixedName" ->
              fixed(mappedOf(checker_getSymbolAtLocation(node.typeName)),
                    convertTypeArguments_v1(Opt(node, "typeArguments")))
         [] typeOf(mappedOf(checker_getSymbolAtLocation(node.typeName)))
              = "TypeReferenceMacro" ->
              returned(ApplyMacro(
                         mappedOf(checker_getSymbolAtLocation(node.typeName)).convert,
                         converter, node, Undefined))
         [] OTHER ->
              generic(convertEntityNameAsType_v1(node.typeName),
                      convertTypeArguments_v1(Opt(node, "typeArguments")))

convertUnionType_v1(node) ==
    LET union(types) == Propagate(types, b_unionTypeAnnotation(types))
    IN union(convertTypes_v1(node.types))

convertTypeParameterDeclaration_v1(params) ==
    IF IsUndefined(params) THEN Null
    ELSE LET annotated(t) == Propagate(<<t>>, b_typeAnnotation(t))
             typeParameter(name, bound) ==
                 Propagate(<<bound>>, b_typeParameter(name, Null, bound, Null))
             declaration(converted) ==
                 Propagate(converted, b_typeParameterDeclaration(converted))
         IN declaration([i \in DOMAIN params.items |->
                           typeParameter(
                             params.items[i].name.text,
                             IF ~Has(params.items[i], "constraint") THEN Null
                             ELSE annotated(convertType_v1(params.items[i].constraint)))])

\* The parameter loop of convertFunctionType from index i on.
RECURSIVE convertFunctionTypeParams_v1(_, _, _)
convertFunctionTypeParams_v1(parameters, i, params) ==
    IF i > Len(parameters)
    THEN [params |-> params, restParam |-> Null]
    ELSE
    LET rest(name, t) ==
            Propagate(<<name, t>>,
              [params |-> params,
               restParam |-> b_functionTypeParam(name, t, FALSE)])
        ordinary(name, t, optional) ==
            Propagate(<<name, t>>,
              convertFunctionTypeParams_v1(
                parameters, i + 1,
                Append(params, b_functionTypeParam(name, t, optional))))
    IN IF Has(parameters[i], "dotDotDotToken")
       THEN rest(convertIdentifier(parameters[i].name),
                 IF Has(parameters[i], "type") THEN convertType_v1(parameters[i].type)
                 ELSE b_arrayTypeAnnotation(b_simple("AnyTypeAnnotation")))
       ELSE ordinary(convertIdentifier(parameters[i].name),
                     IF Has(parameters[i], "type") THEN convertType_v1(parameters[i].type)
                     ELSE b_simple("AnyTypeAnnotation"),
                     Has(parameters[i], "questionToken"))

convertFunctionType_v1(node) ==
    LET function(typeParams, loop, resultType) ==
            Propagate(<<typeParams, loop, resultType>>,
              b_functionTypeAnnotation(loop.params, resultType, loop.restParam, typeParams))
    IN function(convertTypeParameterDeclaration_v1(Opt(node, "typeParameters")),
                convertFunctionTypeParams_v1(node.parameters, 1, <<>>),
                IF Has(node, "type") THEN convertType_v1(node.type)
                ELSE b_simple("AnyTypeAnnotation"))

\* The member loop of convertTypeLiteral from index i on.
RECURSIVE convertTypeLiteralMembers_v1(_, _, _)
convertTypeLiteralMembers_v1(node, i, properties) ==
    IF i > Len(node.members)
    THEN b_objectTypeAnnotation(properties, <<>>, <<>>, TRUE, FALSE)
    ELSE
    LET property(key, value, optional) ==
            Propagate(<<key, value>>,
              convertTypeLiteralMembers_v1(
                node, i + 1,
                Append(properties, b_objectTypeProperty(key, value, optional))))
    IN CASE node.members[i].kind = "PropertySignature" ->
              property(convertIdentifier(node.members[i].name),
                       IF Has(node.members[i], "type")
                       THEN convertType_v1(node.members[i].type)
                       ELSE b_simple("AnyTypeAnnotation"),
                       Has(node.members[i], "questionToken"))
         [] node.members[i].kind \in {"CallSignature", "ConstructSignature",
                                      "MethodSignature", "GetAccessor", "SetAccessor",
                                      "IndexSignature"} ->
              Throw("unimplemented TypeElement kind: " \o node.members[i].kind)
         [] OTHER -> crudeError_v1(node)

convertTypeLiteral_v1(node) == convertTypeLiteralMembers_v1(node, 1, <<>>)

convertType_v1(node) ==
    CASE node.kind = "UnknownKeyword" -> b_simple("MixedTypeAnnotation")
      [] node.kind = "AnyKeyword" -> b_simple("AnyTypeAnnotation")
      [] node.kind = "NeverKeyword" -> b_simple("EmptyTypeAnnotation")
      [] node.kind \in {"UndefinedKeyword", "VoidKeyword"} -> b_simple("VoidTypeAnnotation")
      [] node.kind = "BooleanKeyword" -> b_simple("BooleanTypeAnnotation")
      [] node.kind = "NumberKeyword" -> b_simple("NumberTypeAnnotation")
      [] node.kind = "StringKeyword" -> b_simple("StringTypeAnnotation")
      [] node.kind = "ObjectKeyword" ->
           b_objectTypeAnnotation(<<>>, <<>>, <<>>, FALSE, TRUE)
      [] node.kind = "ParenthesizedType" -> convertType_v1(node.type)
      [] node.kind = "LiteralType" -> convertLiteralType_v1(node)
      [] node.kind = "TypeReference" -> convertTypeReference_v1(node)
      [] node.kind = "UnionType" -> convertUnionType_v1(node)
      [] node.kind = "IndexedAccessType" ->
           LET elementOf(objectType, indexType) ==
                   Propagate(<<objectType, indexType>>,
                     b_genericTypeAnnotation(
                       b_identifier("$ElementType"),
                       b_typeParameterInstantiation(<<objectType, indexType>>)))
           IN elementOf(convertType_v1(node.objectType), convertType_v1(node.indexType))
      [] node.kind = "ArrayType" ->
           LET array(elementType) ==
                   Propagate(<<elementType>>, b_arrayTypeAnnotation(elementType))
           IN array(convertType_v1(node.elementType))
      [] node.kind = "TupleType" ->
           LET tuple(types) == Propagate(types, b_tupleTypeAnnotation(types))
           IN tuple(convertTypes_v1(node.elements))
      [] node.kind = "FunctionType" -> convertFunctionType_v1(node)
      [] node.kind = "TypeLiteral" -> convertTypeLiteral_v1(node)
      [] node.kind \in {"TypePredicate", "ConstructorType", "TypeQuery", "OptionalType",
                        "RestType", "IntersectionType", "ConditionalType", "InferType",
                        "ThisType", "TypeOperator", "MappedType", "NamedTupleMember",
                        "TemplateLiteralType", "TemplateLiteralTypeSpan", "ImportType"} ->
           unimplementedType_v1(node)
      [] OTHER ->
           errorType(node, "unexpected type kind: " \o node.kind)

convertImportDeclaration_v1(node) ==
    IF ~Has(node, "importClause")
    THEN Throw("unimplemented: no import clause")
    ELSE IF Has(node.importClause, "modifiers")
    THEN errorStatement(node, "unimplemented: ImportDeclaration with modifiers")
    ELSE
    LET importClause == node.importClause
        default ==
            IF Has(importClause, "name")
            THEN LET local == convertIdentifier(importClause.name)
                 IN <<Propagate(<<local>>,
                        [type |-> "ImportDefaultSpecifier", local |-> local])>>
            ELSE <<>>
        convertBinding(binding) ==
            LET localSymbol == checker_getSymbolAtLocation(binding.name)
                importedSymbol ==
                    IF IsUndefined(localSymbol) \/ ~Has(localSymbol, "aliased")
                    THEN Undefined
                    ELSE localSymbol.aliased   \* checker.getImmediateAliasedSymbol
                isNonValue ==
                    /\ ~IsUndefined(importedSymbol)
                    /\ importedSymbol.flags
                         \cap {"Interface", "TypeLiteral", "TypeAlias"} # {}
                imported == convertIdentifier(IF Has(binding, "propertyName")
                                              THEN binding.propertyName
                                              ELSE binding.name)
                local == convertIdentifier(binding.name)
            IN Propagate(<<imported, local>>,
                 [type |-> "ImportSpecifier", imported |-> imported, local |-> local,
                  importKind |-> IF isNonValue THEN "type" ELSE "value"])
        named ==
            IF ~Has(importClause, "namedBindings") THEN <<>>
            ELSE IF ts_isNamedImports(importClause.namedBindings)
            THEN [i \in DOMAIN importClause.namedBindings.elements |->
                    convertBinding(importClause.namedBindings.elements[i])]
            ELSE LET local == convertIdentifier(importClause.namedBindings.name)
                 IN <<Propagate(<<local>>,
                        [type |-> "ImportNamespaceSpecifier", local |-> local])>>
        specifiers == default \o named
        source == IF Has(node.moduleSpecifier, "text")
                  THEN b_stringLiteral(node.moduleSpecifier.text)
                  ELSE BuilderError("value")
    IN Propagate(specifiers \o <<source>>,
         [type |-> "ImportDeclaration", specifiers |-> specifiers, source |-> source])

convertExportAssignment_v1(node) ==
    IF Has(node, "isExportEquals")
    THEN errorStatement(node, "unimplemented: \"export =\"")
    ELSE IF ~ts_isIdentifier(node.expression)
    THEN errorStatement(node, "\"export default\" with non-identifier")
    ELSE LET declaration == convertIdentifier(node.expression)
         IN Propagate(<<declaration>>,
              [type |-> "ExportDefaultDeclaration", declaration |-> declaration])

convertVariableStatement_v1(node) ==
    LET kindOf(flags) == IF flags = "Const" THEN "var"
                         ELSE IF flags = "Let" THEN "let"
                         ELSE "var"
        declarator(type, id) ==
            Propagate(<<type, id>>,
              [type |-> "VariableDeclarator", id |-> id, init |-> Null])
        typed(decl, type) == declarator(type, convertIdentifierTyped(decl.name, type))
        declaration(declarations) ==
            Propagate(declarations,
              [type |-> "VariableDeclaration",
               kind |-> kindOf(node.declarationList.flags),
               declarations |-> declarations])
    IN declaration([i \in DOMAIN node.declarationList.declarations |->
                      typed(node.declarationList.declarations[i],
                            IF Has(node.declarationList.declarations[i], "type")
                            THEN convertType_v1(node.declarationList.declarations[i].type)
                            ELSE Undefined)])

convertTypeAliasDeclaration_v1(node) ==
    LET alias(id, typeParameters, right) ==
            Propagate(<<id, typeParameters, right>>,
              [type |-> "TypeAlias", id |-> id, typeParameters |-> typeParameters,
               right |-> right])
    IN alias(convertIdentifier(node.name),
             convertTypeParameterDeclaration_v1(Opt(node, "typeParameters")),
             convertType_v1(node.type))

convertFunctionDeclaration_v1(node) ==
    IF ~Has(node, "name") THEN crudeError_v1(node)
    ELSE LET declare(type, id) ==
                 Propagate(<<type, id>>, [type |-> "DeclareFunction", id |-> id])
             typed(type) == declare(type, convertIdentifierTyped(node.name, type))
         IN typed(convertFunctionType_v1(node))

\* The callback convertClassLikeDeclaration gives to forEach, on one heritage
\* clause, from base i on: the bases pushed to extends_, an exception, and
\* under 'returned' the error statement the callback returns, if it returns
\* one.
RECURSIVE heritageCallback_v1(_, _, _, _)
heritageCallback_v1(node, heritageClause, i, extends) ==
    IF heritageClause.token # "ExtendsKeyword"
    THEN [extends |-> extends,
          returned |-> <<errorStatement(node, "unimplemented: class 'implements'")>>]
    ELSE IF i > Len(heritageClause.types)
    THEN [extends |-> extends, returned |-> <<>>]
    ELSE
    LET extended(id, typeParameters) ==
            Propagate(<<id, typeParameters>>,
              heritageCallback_v1(
                node, heritageClause, i + 1,
                Append(extends,
                       [type |-> "InterfaceExtends", id |-> id,
                        typeParameters |-> typeParameters])))
        expressionOf(base) == base.expression
    IN IF ~(\/ ts_isIdentifier(expressionOf(heritageClause.types[i]))
            \/ ts_isQualifiedName(expressionOf(heritageClause.types[i])))
       THEN [extends |-> extends,
             returned |-> <<errorStatement(node, "unexpected 'extends' base kind: "
                              \o expressionOf(heritageClause.types[i]).kind)>>]
       ELSE IF ~ts_isIdentifier(expressionOf(heritageClause.types[i]))
       THEN [extends |-> extends,
             returned |-> <<errorStatement(node,
                              "unimplemented: qualified name in 'extends'")>>]
       ELSE extended(convertIdentifier(expressionOf(heritageClause.types[i])),
                     convertTypeArguments_v1(Opt(heritageClause.types[i],
                                                 "typeArguments")))

\* forEach(node.heritageClauses, callback) from clause i on.  The statement
\* does nothing with what forEach or the callback returns; 'discarded' lists
\* the error statements the callback returned.
RECURSIVE forEachHeritageClause_v1(_, _, _, _)
forEachHeritageClause_v1(node, i, extends, discarded) ==
    IF ~Has(node, "heritageClauses") \/ i > Len(node.heritageClauses)
    THEN [extends |-> extends, discarded |-> discarded]
    ELSE LET next(step) ==
                 IF IsThrow(step) THEN step
                 ELSE forEachHeritageClause_v1(node, i + 1, step.extends,
                                               discarded \o step.returned)
         IN next(heritageCallback_v1(node, node.heritageClauses[i], 1, extends))

\* node.members.forEach(...) from member i on.
RECURSIVE convertMembers_v1(_, _, _)
convertMembers_v1(node, i, properties) ==
    IF i > Len(node.members) THEN [properties |-> properties]
    ELSE
    LET constructor(value) ==
            Propagate(<<value>>,
              convertMembers_v1(node, i + 1,
                Append(properties,
                       b_objectTypeProperty(b_identifier("constructor"), value, FALSE))))
    IN CASE node.members[i].kind = "Constructor" ->
              constructor(convertFunctionType_v1(node.members[i]))
         [] node.members[i].kind \in {"PropertyDeclaration", "MethodDeclaration",
                                      "SemicolonClassElement", "GetAccessor",
                                      "SetAccessor", "IndexSignature",
                                      "ClassStaticBlockDeclaration"} ->
              Throw("unimplemented ClassElement kind: " \o node.members[i].kind)
         [] OTHER -> crudeError_v1(node)

convertClassLikeDeclaration_v1(node) ==
    IF ~Has(node, "name") THEN crudeError_v1(node)
    ELSE
    LET declaration(typeParameters, heritage, members, id) ==
            Propagate(<<typeParameters, heritage, members, id>>,
              [type |-> IF ts_isInterfaceDeclaration(node) THEN "DeclareInterface"
                        ELSE "DeclareClass",
               id |-> id,
               typeParameters |-> typeParameters,
               extends |-> heritage.extends,
               body |-> b_objectTypeAnnotation(members.properties, <<>>, <<>>,
                                               FALSE, FALSE)])
    IN declaration(convertTypeParameterDeclaration_v1(Opt(node, "typeParameters")),
                   forEachHeritageClause_v1(node, 1, <<>>, <<>>),
                   convertMembers_v1(node, 1, <<>>),
                   convertIdentifier(node.name))

convertStatementExceptExport_v1(node) ==
    CASE node.kind = "ImportDeclaration" -> convertImportDeclaration_v1(node)
      [] node.kind = "ExportAssignment" -> convertExportAssignment_v1(node)
      [] node.kind = "VariableStatement" -> convertVariableStatement_v1(node)
      [] node.kind = "TypeAliasDeclaration" -> convertTypeAliasDeclaration_v1(node)
      [] node.kind = "FunctionDeclaration" -> convertFunctionDeclaration_v1(node)
      [] node.kind \in {"ClassDeclaration", "InterfaceDeclaration"} ->
           convertClassLikeDeclaration_v1(node)
      [] node.kind \in {"Block", "EmptyStatement", "ExpressionStatement", "IfStatement",
                        "DoStatement", "WhileStatement", "ForStatement",
                        "ForInStatement", "ForOfStatement", "ContinueStatement",
                        "BreakStatement", "ReturnStatement", "WithStatement",
                        "SwitchStatement", "LabeledStatement", "ThrowStatement",
                        "TryStatement", "DebuggerStatement", "VariableDeclaration",
                        "VariableDeclarationList", "EnumDeclaration",
                        "ModuleDeclaration", "ModuleBlock", "CaseBlock",
                        "NamespaceExportDeclaration", "ImportEqualsDeclaration",
                        "ImportClause", "NamespaceImport", "NamedImports",
                        "ImportSpecifier", "ExportDeclaration", "NamedExports",
                        "NamespaceExport", "ExportSpecifier", "MissingDeclaration"} ->
           unimplementedStatement_v1(node)
      [] OTHER ->
           errorStatement(node, "unexpected statement kind: " \o node.kind)

\* The export step takes the converted statement only.  For a statement that
\* is no declaration and no empty statement it writes a warning to the
\* console and returns the statement as it is.
modifyStatementAsExport_v1(inner) ==
    IF ~n_Declaration_check(inner)
    THEN inner
    ELSE IF inner.type = "DeclareClass"
    THEN [type |-> "DeclareExportDeclaration", default |-> FALSE,
          declaration |-> inner]
    ELSE IF inner.type = "DeclareInterface"
    THEN [type |-> "ExportNamedDeclaration",
          declaration |-> [type |-> "InterfaceDeclaration", id |-> inner.id,
                           typeParameters |-> inner.typeParameters,
                           extends |-> inner.extends, body |-> inner.body],
          specifiers |-> <<>>, source |-> Null, exportKind |-> "value"]
    ELSE [type |-> "ExportNamedDeclaration", declaration |-> inner,
          specifiers |-> <<>>, source |-> Null, exportKind |-> "value"]

\* The body of the try block of convertStatement: what it returns, or throws.
convertStatement_try_v1(node) ==
    LET exported(inner) ==
            IF IsThrow(inner) THEN inner
            ELSE IF hasModifier(node, "ExportKeyword")
            THEN modifyStatementAsExport_v1(inner)
            ELSE inner
    IN exported(convertStatementExceptExport_v1(node))

convertStatement_v1(node) ==
    LET caught(result) ==
            IF IsThrow(result)
            THEN errorStatement(node, "internal error: " \o result.message)
            ELSE result
    IN caught(convertStatement_try_v1(node))

convertSourceFile_v1(file) ==
    LET built(statements) == Propagate(statements, b_file(statements, file.fileName))
    IN built([i \in DOMAIN file.statements |-> convertStatement_v1(file.statements[i])])

----------------------------------------------------------------------------
(* Input: parsed TypeScript.  Each statement below is the tree the TypeScript
   parser builds for the text in its comment, placed at offset b of the file
   text; pos is the end of the previous token, so a node's span starts with
   the white space before it. *)

Tok(kind, b, p, e) == [kind |-> kind, pos |-> b + p, end |-> b + e]

Text(kind, b, p, e, text) == [kind |-> kind, pos |-> b + p, end |-> b + e, text |-> text]

Id(b, p, e, text) == Text("Identifier", b, p, e, text)

\* An identifier the checker resolves to 'symbol'.
IdS(b, p, e, text, symbol) ==
    [kind |-> "Identifier", pos |-> b + p, end |-> b + e, text |-> text,
     symbol |-> symbol]

TypeRef(b, p, e, typeName) ==
    [kind |-> "TypeReference", pos |-> b + p, end |-> b + e, typeName |-> typeName]

LiteralType(b, p, e, literal) ==
    [kind |-> "LiteralType", pos |-> b + p, end |-> b + e, literal |-> literal]

\* ts.Symbol as far as the converter and the mapper look at it: where it is
\* declared, its name, and whether each declaration has type parameters.
Symbol(origin, namespaces, name, declarations) ==
    [origin |-> origin, namespaces |-> namespaces, name |-> name,
     declarations |-> declarations]

Decl(kind) == [kind |-> kind]

GenericDecl(kind, typeParameters) == [kind |-> kind, typeParameters |-> typeParameters]

Symbol_P == Symbol("file", <<>>, "P", <<Decl("InterfaceDeclaration")>>)

Symbol_Q == Symbol("file", <<>>, "Q", <<Decl("TypeAliasDeclaration")>>)

Symbol_T == Symbol("file", <<>>, "T", <<Decl("TypeParameter")>>)

\* interface Box<T = string> {...}
Symbol_Box == Symbol("file", <<>>, "Box", <<GenericDecl("InterfaceDeclaration", <<"T">>)>>)

Symbol_Foo == Symbol("file", <<>>, "Foo", <<Decl("ModuleDeclaration")>>)

Symbol_Bar == Symbol("file", <<"Foo">>, "Bar", <<GenericDecl("InterfaceDeclaration", <<"T">>)>>)

\* type $FlowFixMe = any;
Symbol_FlowFixMe == Symbol("file", <<>>, "$FlowFixMe", <<Decl("TypeAliasDeclaration")>>)

\* A Readonly the file declares itself, shadowing the library's.
Symbol_LocalReadonly ==
    Symbol("file", <<>>, "Readonly", <<GenericDecl("TypeAliasDeclaration", <<"T">>)>>)

Symbol_Readonly ==
    Symbol("defaultLibrary", <<>>, "Readonly", <<GenericDecl("TypeAliasDeclaration", <<"T">>)>>)

Symbol_ReadonlyArray ==
    Symbol("defaultLibrary", <<>>, "ReadonlyArray",
           <<GenericDecl("InterfaceDeclaration", <<"T">>)>>)

Symbol_Omit ==
    Symbol("defaultLibrary", <<>>, "Omit", <<GenericDecl("TypeAliasDeclaration", <<"T", "K">>)>>)

Symbol_React == Symbol("file", <<>>, "React", <<Decl("NamespaceImport")>>)

Symbol_Component ==
    Symbol("react", <<>>, "Component",
           <<GenericDecl("ClassDeclaration", <<"P", "S", "SS">>),
             GenericDecl("InterfaceDeclaration", <<"P", "S", "SS">>)>>)

Symbol_ReactElement ==
    Symbol("react", <<>>, "ReactElement", <<GenericDecl("InterfaceDeclaration", <<"P", "T">>)>>)

Symbol_JSX == Symbol("global", <<>>, "JSX", <<Decl("ModuleDeclaration")>>)

Symbol_JsxElement == Symbol("global", <<"JSX">>, "Element", <<Decl("InterfaceDeclaration")>>)

\* Import bindings: the alias symbol and, under 'aliased', what
\* checker.getImmediateAliasedSymbol gives for it.
Symbol_ImportedValue ==
    [origin |-> "file", namespaces |-> <<>>, name |-> "b",
     declarations |-> <<Decl("ImportSpecifier")>>,
     aliased |-> [flags |-> {"BlockScopedVariable"}]]

Symbol_ImportedType ==
    [origin |-> "file", namespaces |-> <<>>, name |-> "P",
     declarations |-> <<Decl("ImportSpecifier")>>,
     aliased |-> [flags |-> {"Interface"}]]

\* import { Lib } from "m", where m has: interface Lib<T = string> {...}
\* The name's symbol is the alias the import declares.
Symbol_ImportedBox ==
    [origin |-> "file", namespaces |-> <<>>, name |-> "Lib",
     declarations |-> <<Decl("ImportSpecifier")>>,
     aliased |-> [flags |-> {"Interface"},
                  declarations |-> <<GenericDecl("InterfaceDeclaration", <<"T">>)>>]]

TemplateNames ==
    {"aliasNumber", "aliasReadonly", "aliasLocalReadonly", "aliasGeneric",
     "aliasOmit", "aliasComponent", "aliasBadCounts", "aliasElement",
     "aliasDefaulted", "aliasFixMe", "aliasLiterals", "aliasObject",
     "aliasComputed", "aliasMisc", "aliasExported", "functionParams",
     "functionUntyped", "functionRest", "functionDefaultUnnamed", "functionUnnamed",
     "functionExportUnnamed", "functionDefault", "variableConst", "variableLet",
     "variableVar", "variablePattern", "interfaceExtends", "interfaceExtendsFixed",
     "classMembers", "classImplements", "classExtendsCall", "classStringName",
     "interfaceIndex", "classDefaultUnnamed", "classUnnamed", "classDefaultExtends",
     "importNamed", "importNamespace", "importBare", "exportAll",
     "exportNamed", "exportNamespace", "exportDefault", "exportEquals",
     "classAccessor", "aliasProps", "aliasLiterals2", "aliasJsx",
     "functionAfterRest", "aliasOmitComponent", "namespace", "ifStatement"}

\* The text of a template, with the line break before it.
TemplateText(name) ==
    CASE name = "aliasNumber" ->
           "\ntype A = number;"
      [] name = "aliasReadonly" ->
           "\ntype X = Readonly<{a: number}>;"
      [] name = "aliasLocalReadonly" ->
           "\ntype Y = Readonly<string>;"
      [] name = "aliasGeneric" ->
           "\ntype G<T extends P = P> = ReadonlyArray<T>[];"
      [] name = "aliasOmit" ->
           "\ntype O = [Omit<P, \"a\">, Omit<P, \"a\" | \"b\">, Omit<P, keyof Q>];"
      [] name = "aliasComponent" ->
           "\ntype C = React.Component<P>;"
      [] name = "aliasBadCounts" ->
           "\ntype B = Omit<P> | Omit | Omit<P, \"a\", \"b\"> | React.Component<P, P, P>;"
      [] name = "aliasElement" ->
           "\ntype E = [ReactElement, ReactElement<P>, ReactElement<P, Q>, ReactElement<P, Q, P>, JSX.Element];"
      [] name = "aliasDefaulted" ->
           "\ntype F = Box | P | Missing | Lib;"
      [] name = "aliasFixMe" ->
           "\ntype H = $FlowFixMe;"
      [] name = "aliasLiterals" ->
           "\ntype L = -1 | 42 | \"s\" | null | true | false | 10n | -x;"
      [] name = "aliasObject" ->
           "\ntype M = { a?: string; b; f(): void };"
      [] name = "aliasComputed" ->
           "\ntype K = { [k]: P }[];"
      [] name = "aliasMisc" ->
           "\ntype U = [typeof v, (keyof P)[], readonly P[], P[\"a\"], unknown, P extends Q ? any : never];"
      [] name = "aliasExported" ->
           "\nexport type Z<T> = T[];"
      [] name = "functionParams" ->
           "\nexport declare function g<T>(a: T, b?, {c}: P, ...r: string[]): (x: number) => this;"
      [] name = "functionUntyped" ->
           "\ndeclare function h(a, ...r);"
      [] name = "functionRest" ->
           "\ndeclare function f(...xs): void;"
      [] name = "functionDefaultUnnamed" ->
           "\nexport default function (): void;"
      [] name = "functionUnnamed" ->
           "\ndeclare function (): void;"
      [] name = "functionExportUnnamed" ->
           "\nexport declare function (): void;"
      [] name = "functionDefault" ->
           "\nexport default function d(): P;"
      [] name = "variableConst" ->
           "\nexport declare const v: number, w;"
      [] name = "variableLet" ->
           "\ndeclare let l: P;"
      [] name = "variableVar" ->
           "\ndeclare var u: Omit<P>;"
      [] name = "variablePattern" ->
           "\ndeclare const {a, b}: P;"
      [] name = "interfaceExtends" ->
           "\ninterface I extends Foo.Bar<number> {}"
      [] name = "interfaceExtendsFixed" ->
           "\nexport interface J<T> extends ReadonlyArray<T>, Box { a: T; m?(x): void }"
      [] name = "classMembers" ->
           "\nexport declare class K { constructor(n: number); p?: string; #q: P; r; }"
      [] name = "classImplements" ->
           "\ndeclare class N implements P {}"
      [] name = "classExtendsCall" ->
           "\ndeclare class R extends mixin(P) { a: Omit }"
      [] name = "classStringName" ->
           "\ndeclare class S { \"x-y\": number }"
      [] name = "interfaceIndex" ->
           "\nexport interface V { [k: string]: P }"
      [] name = "classDefaultUnnamed" ->
           "\nexport default class {}"
      [] name = "classUnnamed" ->
           "\ndeclare class {}"
      [] name = "classDefaultExtends" ->
           "\nexport default class W extends Foo.Bar<P, Q> {}"
      [] name = "importNamed" ->
           "\nimport D, { a as b, P } from \"m\";"
      [] name = "importNamespace" ->
           "\nimport * as ns from \"m\";"
      [] name = "importBare" ->
           "\nimport \"m\";"
      [] name = "exportAll" ->
           "\nexport * from \"m\";"
      [] name = "exportNamed" ->
           "\nexport { a, type b as c };"
      [] name = "exportNamespace" ->
           "\nexport * as ns from \"m\";"
      [] name = "exportDefault" ->
           "\nexport default foo;"
      [] name = "exportEquals" ->
           "\nexport = foo;"
      [] name = "classAccessor" ->
           "\ndeclare class Q2 { m(x?: P): void; get g(): Q }"
      [] name = "aliasProps" ->
           "\ntype M2 = { a?: string; b; c: P };"
      [] name = "aliasLiterals2" ->
           "\ntype L2 = +1 | -10n | -42;"
      [] name = "aliasJsx" ->
           "\ntype E2 = [ReactElement<any, any>, JSX.Element<P>];"
      [] name = "functionAfterRest" ->
           "\ndeclare function k(a: P, ...r: P[], z: Q): void;"
      [] name = "aliasOmitComponent" ->
           "\ntype O2 = Omit<React.Component<P>, \"a\">;"
      [] name = "namespace" ->
           "\nexport declare namespace NS {}"
      [] name = "ifStatement" ->
           "\nif (x) {}"

\* The statement node of a template placed at offset b of the file text.
Template(name, b) ==
    CASE name = "aliasNumber" ->   \* type A = number;
        [kind |-> "TypeAliasDeclaration", pos |-> b + 0, end |-> b + 17,
         name |-> Id(b, 5, 7, "A"),
         type |-> Tok("NumberKeyword", b, 9, 16)]
      [] name = "aliasReadonly" ->   \* type X = Readonly<{a: number}>;
        [kind |-> "TypeAliasDeclaration", pos |-> b + 0, end |-> b + 32,
         name |-> Id(b, 5, 7, "X"),
         type |-> [kind |-> "TypeReference", pos |-> b + 9, end |-> b + 31,
           typeName |-> IdS(b, 9, 18, "Readonly", Symbol_Readonly),
           typeArguments |-> <<[kind |-> "TypeLiteral", pos |-> b + 19, end |-> b + 30,
               members |-> <<[kind |-> "PropertySignature", pos |-> b + 20, end |-> b + 29,
                   name |-> Id(b, 20, 21, "a"),
                   type |-> Tok("NumberKeyword", b, 22, 29)]>>]>>]]
      [] name = "aliasLocalReadonly" ->   \* type Y = Readonly<string>;
        [kind |-> "TypeAliasDeclaration", pos |-> b + 0, end |-> b + 27,
         name |-> Id(b, 5, 7, "Y"),
         type |-> [kind |-> "TypeReference", pos |-> b + 9, end |-> b + 26,
           typeName |-> IdS(b, 9, 18, "Readonly", Symbol_LocalReadonly),
           typeArguments |-> <<Tok("StringKeyword", b, 19, 25)>>]]
      [] name = "aliasGeneric" ->   \* type G<T extends P = P> = ReadonlyArray<T>[];
        [kind |-> "TypeAliasDeclaration", pos |-> b + 0, end |-> b + 46,
         name |-> Id(b, 5, 7, "G"),
         typeParameters |-> <<[kind |-> "TypeParameter", pos |-> b + 8, end |-> b + 23,
             name |-> Id(b, 8, 9, "T"),
             constraint |-> TypeRef(b, 17, 19, IdS(b, 17, 19, "P", Symbol_P)),
             default |-> TypeRef(b, 21, 23, IdS(b, 21, 23, "P", Symbol_P))]>>,
         type |-> [kind |-> "ArrayType", pos |-> b + 26, end |-> b + 45,
           elementType |-> [kind |-> "TypeReference", pos |-> b + 26, end |-> b + 43,
             typeName |-> IdS(b, 26, 40, "ReadonlyArray", Symbol_ReadonlyArray),
             typeArguments |-> <<TypeRef(b, 41, 42, IdS(b, 41, 42, "T", Symbol_T))>>]]]
      [] name = "aliasOmit" ->   \* type O = [Omit<P, "a">, Omit<P, "a" | "b">, Omit<P, keyof Q>];
        [kind |-> "TypeAliasDeclaration", pos |-> b + 0, end |-> b + 63,
         name |-> Id(b, 5, 7, "O"),
         type |-> [kind |-> "TupleType", pos |-> b + 9, end |-> b + 62,
           elements |-> <<[kind |-> "TypeReference", pos |-> b + 11, end |-> b + 23,
               typeName |-> IdS(b, 11, 15, "Omit", Symbol_Omit),
               typeArguments |-> <<TypeRef(b, 16, 17, IdS(b, 16, 17, "P", Symbol_P)),
                  LiteralType(b, 18, 22, Text("StringLiteral", b, 18, 22, "a"))>>],
              [kind |-> "TypeReference", pos |-> b + 24, end |-> b + 43,
               typeName |-> IdS(b, 24, 29, "Omit", Symbol_Omit),
               typeArguments |-> <<TypeRef(b, 30, 31, IdS(b, 30, 31, "P", Symbol_P)),
                  [kind |-> "UnionType", pos |-> b + 32, end |-> b + 42,
                   types |-> <<LiteralType(b, 32, 36, Text("StringLiteral", b, 32, 36, "a")),
                      LiteralType(b, 38, 42, Text("StringLiteral", b, 38, 42, "b"))>>]>>],
              [kind |-> "TypeReference", pos |-> b + 44, end |-> b + 61,
               typeName |-> IdS(b, 44, 49, "Omit", Symbol_Omit),
               typeArguments |-> <<TypeRef(b, 50, 51, IdS(b, 50, 51, "P", Symbol_P)),
                  [kind |-> "TypeOperator", pos |-> b + 52, end |-> b + 60,
                   operator |-> "KeyOfKeyword",
                   type |-> TypeRef(b, 58, 60, IdS(b, 58, 60, "Q", Symbol_Q))]>>]>>]]
      [] name = "aliasComponent" ->   \* type C = React.Component<P>;
        [kind |-> "TypeAliasDeclaration", pos |-> b + 0, end |-> b + 29,
         name |-> Id(b, 5, 7, "C"),
         type |-> [kind |-> "TypeReference", pos |-> b + 9, end |-> b + 28,
           typeName |-> [kind |-> "QualifiedName", pos |-> b + 9, end |-> b + 25,
             left |-> IdS(b, 9, 15, "React", Symbol_React),
             right |-> Id(b, 16, 25, "Component"),
             symbol |-> Symbol_Component],
           typeArguments |-> <<TypeRef(b, 26, 27, IdS(b, 26, 27, "P", Symbol_P))>>]]
      [] name = "aliasBadCounts" ->   \* type B = Omit<P> | Omit | Omit<P, "a", "b"> | React.Component<P, P, P>;
        [kind |-> "TypeAliasDeclaration", pos |-> b + 0, end |-> b + 72,
         name |-> Id(b, 5, 7, "B"),
         type |-> [kind |-> "UnionType", pos |-> b + 9, end |-> b + 71,
           types |-> <<[kind |-> "TypeReference", pos |-> b + 9, end |-> b + 17,
               typeName |-> IdS(b, 9, 14, "Omit", Symbol_Omit),
               typeArguments |-> <<TypeRef(b, 15, 16, IdS(b, 15, 16, "P", Symbol_P))>>],
              TypeRef(b, 19, 24, IdS(b, 19, 24, "Omit", Symbol_Omit)),
              [kind |-> "TypeReference", pos |-> b + 26, end |-> b + 44,
               typeName |-> IdS(b, 26, 31, "Omit", Symbol_Omit),
               typeArguments |-> <<TypeRef(b, 32, 33, IdS(b, 32, 33, "P", Symbol_P)),
                  LiteralType(b, 34, 38, Text("StringLiteral", b, 34, 38, "a")),
                  LiteralType(b, 39, 43, Text("StringLiteral", b, 39, 43, "b"))>>],
              [kind |-> "TypeReference", pos |-> b + 46, end |-> b + 71,
               typeName |-> [kind |-> "QualifiedName", pos |-> b + 46, end |-> b + 62,
                 left |-> IdS(b, 46, 52, "React", Symbol_React),
                 right |-> Id(b, 53, 62, "Component"),
                 symbol |-> Symbol_Component],
               typeArguments |-> <<TypeRef(b, 63, 64, IdS(b, 63, 64, "P", Symbol_P)),
                  TypeRef(b, 65, 67, IdS(b, 65, 67, "P", Symbol_P)),
                  TypeRef(b, 68, 70, IdS(b, 68, 70, "P", Symbol_P))>>]>>]]
      [] name = "aliasElement" ->   \* type E = [ReactElement, ReactElement<P>, ReactElement<P, Q>, ReactElement<P, Q, P>, JSX.Element];
        [kind |-> "TypeAliasDeclaration", pos |-> b + 0, end |-> b + 98,
         name |-> Id(b, 5, 7, "E"),
         type |-> [kind |-> "TupleType", pos |-> b + 9, end |-> b + 97,
           elements |-> <<TypeRef(b, 11, 23, IdS(b, 11, 23, "ReactElement", Symbol_ReactElement)),
              [kind |-> "TypeReference", pos |-> b + 24, end |-> b + 40,
               typeName |-> IdS(b, 24, 37, "ReactElement", Symbol_ReactElement),
               typeArguments |-> <<TypeRef(b, 38, 39, IdS(b, 38, 39, "P", Symbol_P))>>],
              [kind |-> "TypeReference", pos |-> b + 41, end |-> b + 60,
               typeName |-> IdS(b, 41, 54, "ReactElement", Symbol_ReactElement),
               typeArguments |-> <<TypeRef(b, 55, 56, IdS(b, 55, 56, "P", Symbol_P)),
                  TypeRef(b, 57, 59, IdS(b, 57, 59, "Q", Symbol_Q))>>],
              [kind |-> "TypeReference", pos |-> b + 61, end |-> b + 83,
               typeName |-> IdS(b, 61, 74, "ReactElement", Symbol_ReactElement),
               typeArguments |-> <<TypeRef(b, 75, 76, IdS(b, 75, 76, "P", Symbol_P)),
                  TypeRef(b, 77, 79, IdS(b, 77, 79, "Q", Symbol_Q)),
                  TypeRef(b, 80, 82, IdS(b, 80, 82, "P", Symbol_P))>>],
              TypeRef(b, 84, 96, [kind |-> "QualifiedName", pos |-> b + 84, end |-> b + 96,
                 left |-> IdS(b, 84, 88, "JSX", Symbol_JSX),
                 right |-> Id(b, 89, 96, "Element"),
                 symbol |-> Symbol_JsxElement])>>]]
      [] name = "aliasDefaulted" ->   \* type F = Box | P | Missing | Lib;
        [kind |-> "TypeAliasDeclaration", pos |-> b + 0, end |-> b + 34,
         name |-> Id(b, 5, 7, "F"),
         type |-> [kind |-> "UnionType", pos |-> b + 9, end |-> b + 33,
           types |-> <<TypeRef(b, 9, 13, IdS(b, 9, 13, "Box", Symbol_Box)),
              TypeRef(b, 15, 17, IdS(b, 15, 17, "P", Symbol_P)),
              TypeRef(b, 19, 27, Id(b, 19, 27, "Missing")),
              TypeRef(b, 29, 33, IdS(b, 29, 33, "Lib", Symbol_ImportedBox))>>]]
      [] name = "aliasFixMe" ->   \* type H = $FlowFixMe;
        [kind |-> "TypeAliasDeclaration", pos |-> b + 0, end |-> b + 21,
         name |-> Id(b, 5, 7, "H"),
         type |-> TypeRef(b, 9, 20, IdS(b, 9, 20, "$FlowFixMe", Symbol_FlowFixMe))]
      [] name = "aliasLiterals" ->   \* type L = -1 | 42 | "s" | null | true | false | 10n | -x;
        [kind |-> "TypeAliasDeclaration", pos |-> b + 0, end |-> b + 57,
         name |-> Id(b, 5, 7, "L"),
         type |-> [kind |-> "UnionType", pos |-> b + 9, end |-> b + 56,
           types |-> <<[kind |-> "LiteralType", pos |-> b + 9, end |-> b + 12,
               literal |-> [kind |-> "PrefixUnaryExpression", pos |-> b + 9, end |-> b + 12,
                 operator |-> "MinusToken",
                 operand |-> Text("NumericLiteral", b, 11, 12, "1")]],
              LiteralType(b, 14, 17, Text("NumericLiteral", b, 14, 17, "42")),
              LiteralType(b, 19, 23, Text("StringLiteral", b, 19, 23, "s")),
              LiteralType(b, 25, 30, Tok("NullKeyword", b, 25, 30)),
              LiteralType(b, 32, 37, Tok("TrueKeyword", b, 32, 37)),
              LiteralType(b, 39, 45, Tok("FalseKeyword", b, 39, 45)),
              LiteralType(b, 47, 51, Text("BigIntLiteral", b, 47, 51, "10n")),
              [kind |-> "LiteralType", pos |-> b + 53, end |-> b + 56,
               literal |-> [kind |-> "PrefixUnaryExpression", pos |-> b + 53, end |-> b + 56,
                 operator |-> "MinusToken",
                 operand |-> Id(b, 55, 56, "x")]]>>]]
      [] name = "aliasObject" ->   \* type M = { a?: string; b; f(): void };
        [kind |-> "TypeAliasDeclaration", pos |-> b + 0, end |-> b + 39,
         name |-> Id(b, 5, 7, "M"),
         type |-> [kind |-> "TypeLiteral", pos |-> b + 9, end |-> b + 38,
           members |-> <<[kind |-> "PropertySignature", pos |-> b + 11, end |-> b + 23,
               name |-> Id(b, 11, 13, "a"),
               questionToken |-> TRUE,
               type |-> Tok("StringKeyword", b, 15, 22)],
              [kind |-> "PropertySignature", pos |-> b + 23, end |-> b + 26,
               name |-> Id(b, 23, 25, "b")],
              [kind |-> "MethodSignature", pos |-> b + 26, end |-> b + 36,
               name |-> Id(b, 26, 28, "f"),
               parameters |-> <<>>,
               type |-> Tok("VoidKeyword", b, 31, 36)]>>]]
      [] name = "aliasComputed" ->   \* type K = { [k]: P }[];
        [kind |-> "TypeAliasDeclaration", pos |-> b + 0, end |-> b + 23,
         name |-> Id(b, 5, 7, "K"),
         type |-> [kind |-> "ArrayType", pos |-> b + 9, end |-> b + 22,
           elementType |-> [kind |-> "TypeLiteral", pos |-> b + 9, end |-> b + 20,
             members |-> <<[kind |-> "PropertySignature", pos |-> b + 11, end |-> b + 18,
                 name |-> [kind |-> "ComputedPropertyName", pos |-> b + 11, end |-> b + 15,
                   expression |-> Id(b, 13, 14, "k")],
                 type |-> TypeRef(b, 16, 18, IdS(b, 16, 18, "P", Symbol_P))]>>]]]
      [] name = "aliasMisc" ->   \* type U = [typeof v, (keyof P)[], readonly P[], P["a"], unknown, P extends Q ? any : never];
        [kind |-> "TypeAliasDeclaration", pos |-> b + 0, end |-> b + 92,
         name |-> Id(b, 5, 7, "U"),
         type |-> [kind |-> "TupleType", pos |-> b + 9, end |-> b + 91,
           elements |-> <<[kind |-> "TypeQuery", pos |-> b + 11, end |-> b + 19,
               exprName |-> Id(b, 17, 19, "v")],
              [kind |-> "ArrayType", pos |-> b + 20, end |-> b + 32,
               elementType |-> [kind |-> "ParenthesizedType", pos |-> b + 20, end |-> b + 30,
                 type |-> [kind |-> "TypeOperator", pos |-> b + 22, end |-> b + 29,
                   operator |-> "KeyOfKeyword",
                   type |-> TypeRef(b, 27, 29, IdS(b, 27, 29, "P", Symbol_P))]]],
              [kind |-> "TypeOperator", pos |-> b + 33, end |-> b + 46,
               operator |-> "ReadonlyKeyword",
               type |-> [kind |-> "ArrayType", pos |-> b + 42, end |-> b + 46,
                 elementType |-> TypeRef(b, 42, 44, IdS(b, 42, 44, "P", Symbol_P))]],
              [kind |-> "IndexedAccessType", pos |-> b + 47, end |-> b + 54,
               objectType |-> TypeRef(b, 47, 49, IdS(b, 47, 49, "P", Symbol_P)),
               indexType |-> LiteralType(b, 50, 53, Text("StringLiteral", b, 50, 53, "a"))],
              Tok("UnknownKeyword", b, 55, 63),
              [kind |-> "ConditionalType", pos |-> b + 64, end |-> b + 90,
               checkType |-> TypeRef(b, 64, 66, IdS(b, 64, 66, "P", Symbol_P)),
               extendsType |-> TypeRef(b, 74, 76, IdS(b, 74, 76, "Q", Symbol_Q)),
               trueType |-> Tok("AnyKeyword", b, 78, 82),
               falseType |-> Tok("NeverKeyword", b, 84, 90)]>>]]
      [] name = "aliasExported" ->   \* export type Z<T> = T[];
        [kind |-> "TypeAliasDeclaration", pos |-> b + 0, end |-> b + 24,
         modifiers |-> <<[kind |-> "ExportKeyword"]>>,
         name |-> Id(b, 12, 14, "Z"),
         typeParameters |-> <<[kind |-> "TypeParameter", pos |-> b + 15, end |-> b + 16,
             name |-> Id(b, 15, 16, "T")]>>,
         type |-> [kind |-> "ArrayType", pos |-> b + 19, end |-> b + 23,
           elementType |-> TypeRef(b, 19, 21, IdS(b, 19, 21, "T", Symbol_T))]]
      [] name = "functionParams" ->   \* export declare function g<T>(a: T, b?, {c}: P, ...r: string[]): (x: number) => this;
        [kind |-> "FunctionDeclaration", pos |-> b + 0, end |-> b + 85,
         modifiers |-> <<[kind |-> "ExportKeyword"], [kind |-> "DeclareKeyword"]>>,
         name |-> Id(b, 24, 26, "g"),
         typeParameters |-> <<[kind |-> "TypeParameter", pos |-> b + 27, end |-> b + 28,
             name |-> Id(b, 27, 28, "T")]>>,
         parameters |-> <<[kind |-> "Parameter", pos |-> b + 30, end |-> b + 34,
             name |-> Id(b, 30, 31, "a"),
             type |-> TypeRef(b, 32, 34, IdS(b, 32, 34, "T", Symbol_T))],
            [kind |-> "Parameter", pos |-> b + 35, end |-> b + 38,
             name |-> Id(b, 35, 37, "b"),
             questionToken |-> TRUE],
            [kind |-> "Parameter", pos |-> b + 39, end |-> b + 46,
             name |-> Tok("ObjectBindingPattern", b, 39, 43),
             type |-> TypeRef(b, 44, 46, IdS(b, 44, 46, "P", Symbol_P))],
            [kind |-> "Parameter", pos |-> b + 47, end |-> b + 62,
             dotDotDotToken |-> TRUE,
             name |-> Id(b, 51, 52, "r"),
             type |-> [kind |-> "ArrayType", pos |-> b + 53, end |-> b + 62,
               elementType |-> Tok("StringKeyword", b, 53, 60)]]>>,
         type |-> [kind |-> "FunctionType", pos |-> b + 64, end |-> b + 84,
           parameters |-> <<[kind |-> "Parameter", pos |-> b + 66, end |-> b + 75,
               name |-> Id(b, 66, 67, "x"),
               type |-> Tok("NumberKeyword", b, 68, 75)]>>,
           type |-> Tok("ThisType", b, 79, 84)]]
      [] name = "functionUntyped" ->   \* declare function h(a, ...r);
        [kind |-> "FunctionDeclaration", pos |-> b + 0, end |-> b + 29,
         modifiers |-> <<[kind |-> "DeclareKeyword"]>>,
         name |-> Id(b, 17, 19, "h"),
         parameters |-> <<[kind |-> "Parameter", pos |-> b + 20, end |-> b + 21,
             name |-> Id(b, 20, 21, "a")],
            [kind |-> "Parameter", pos |-> b + 22, end |-> b + 27,
             dotDotDotToken |-> TRUE,
             name |-> Id(b, 26, 27, "r")]>>]
      [] name = "functionRest" ->   \* declare function f(...xs): void;
        [kind |-> "FunctionDeclaration", pos |-> b + 0, end |-> b + 33,
         modifiers |-> <<[kind |-> "DeclareKeyword"]>>,
         name |-> Id(b, 17, 19, "f"),
         parameters |-> <<[kind |-> "Parameter", pos |-> b + 20, end |-> b + 25,
             dotDotDotToken |-> TRUE,
             name |-> Id(b, 23, 25, "xs")]>>,
         type |-> Tok("VoidKeyword", b, 27, 32)]
      [] name = "functionDefaultUnnamed" ->   \* export default function (): void;
        [kind |-> "FunctionDeclaration", pos |-> b + 0, end |-> b + 34,
         modifiers |-> <<[kind |-> "ExportKeyword"], [kind |-> "DefaultKeyword"]>>,
         parameters |-> <<>>,
         type |-> Tok("VoidKeyword", b, 28, 33)]
      [] name = "functionUnnamed" ->   \* declare function (): void;
        [kind |-> "FunctionDeclaration", pos |-> b + 0, end |-> b + 27,
         modifiers |-> <<[kind |-> "DeclareKeyword"]>>,
         parameters |-> <<>>,
         type |-> Tok("VoidKeyword", b, 21, 26)]
      [] name = "functionExportUnnamed" ->   \* export declare function (): void;
        [kind |-> "FunctionDeclaration", pos |-> b + 0, end |-> b + 34,
         modifiers |-> <<[kind |-> "ExportKeyword"], [kind |-> "DeclareKeyword"]>>,
         parameters |-> <<>>,
         type |-> Tok("VoidKeyword", b, 28, 33)]
      [] name = "functionDefault" ->   \* export default function d(): P;
        [kind |-> "FunctionDeclaration", pos |-> b + 0, end |-> b + 32,
         modifiers |-> <<[kind |-> "ExportKeyword"], [kind |-> "DefaultKeyword"]>>,
         name |-> Id(b, 24, 26, "d"),
         parameters |-> <<>>,
         type |-> TypeRef(b, 29, 31, IdS(b, 29, 31, "P", Symbol_P))]
      [] name = "variableConst" ->   \* export declare const v: number, w;
        [kind |-> "VariableStatement", pos |-> b + 0, end |-> b + 35,
         modifiers |-> <<[kind |-> "ExportKeyword"], [kind |-> "DeclareKeyword"]>>,
         declarationList |-> [kind |-> "VariableDeclarationList", pos |-> b + 15, end |-> b + 34,
           flags |-> "Const",
           declarations |-> <<[kind |-> "VariableDeclaration", pos |-> b + 21, end |-> b + 31,
               name |-> Id(b, 21, 23, "v"),
               type |-> Tok("NumberKeyword", b, 24, 31)],
              [kind |-> "VariableDeclaration", pos |-> b + 32, end |-> b + 34,
               name |-> Id(b, 32, 34, "w")]>>]]
      [] name = "variableLet" ->   \* declare let l: P;
        [kind |-> "VariableStatement", pos |-> b + 0, end |-> b + 18,
         modifiers |-> <<[kind |-> "DeclareKeyword"]>>,
         declarationList |-> [kind |-> "VariableDeclarationList", pos |-> b + 8, end |-> b + 17,
           flags |-> "Let",
           declarations |-> <<[kind |-> "VariableDeclaration", pos |-> b + 12, end |-> b + 17,
               name |-> Id(b, 12, 14, "l"),
               type |-> TypeRef(b, 15, 17, IdS(b, 15, 17, "P", Symbol_P))]>>]]
      [] name = "variableVar" ->   \* declare var u: Omit<P>;
        [kind |-> "VariableStatement", pos |-> b + 0, end |-> b + 24,
         modifiers |-> <<[kind |-> "DeclareKeyword"]>>,
         declarationList |-> [kind |-> "VariableDeclarationList", pos |-> b + 8, end |-> b + 23,
           flags |-> "None",
           declarations |-> <<[kind |-> "VariableDeclaration", pos |-> b + 12, end |-> b + 23,
               name |-> Id(b, 12, 14, "u"),
               type |-> [kind |-> "TypeReference", pos |-> b + 15, end |-> b + 23,
                 typeName |-> IdS(b, 15, 20, "Omit", Symbol_Omit),
                 typeArguments |-> <<TypeRef(b, 21, 22, IdS(b, 21, 22, "P", Symbol_P))>>]]>>]]
      [] name = "variablePattern" ->   \* declare const {a, b}: P;
        [kind |-> "VariableStatement", pos |-> b + 0, end |-> b + 25,
         modifiers |-> <<[kind |-> "DeclareKeyword"]>>,
         declarationList |-> [kind |-> "VariableDeclarationList", pos |-> b + 8, end |-> b + 24,
           flags |-> "Const",
           declarations |-> <<[kind |-> "VariableDeclaration", pos |-> b + 14, end |-> b + 24,
               name |-> Tok("ObjectBindingPattern", b, 14, 21),
               type |-> TypeRef(b, 22, 24, IdS(b, 22, 24, "P", Symbol_P))]>>]]
      [] name = "interfaceExtends" ->   \* interface I extends Foo.Bar<number> {}
        [kind |-> "InterfaceDeclaration", pos |-> b + 0, end |-> b + 39,
         name |-> Id(b, 10, 12, "I"),
         heritageClauses |-> <<[kind |-> "HeritageClause", pos |-> b + 12, end |-> b + 36,
             token |-> "ExtendsKeyword",
             types |-> <<[kind |-> "ExpressionWithTypeArguments", pos |-> b + 20, end |-> b + 36,
                 expression |-> [kind |-> "PropertyAccessExpression", pos |-> b + 20, end |-> b + 28,
                   expression |-> IdS(b, 20, 24, "Foo", Symbol_Foo),
                   name |-> Id(b, 25, 28, "Bar"),
                   symbol |-> Symbol_Bar],
                 typeArguments |-> <<Tok("NumberKeyword", b, 29, 35)>>]>>]>>,
         members |-> <<>>]
      [] name = "interfaceExtendsFixed" ->   \* export interface J<T> extends ReadonlyArray<T>, Box { a: T; m?(x): void }
        [kind |-> "InterfaceDeclaration", pos |-> b + 0, end |-> b + 74,
         modifiers |-> <<[kind |-> "ExportKeyword"]>>,
         name |-> Id(b, 17, 19, "J"),
         typeParameters |-> <<[kind |-> "TypeParameter", pos |-> b + 20, end |-> b + 21,
             name |-> Id(b, 20, 21, "T")]>>,
         heritageClauses |-> <<[kind |-> "HeritageClause", pos |-> b + 22, end |-> b + 52,
             token |-> "ExtendsKeyword",
             types |-> <<[kind |-> "ExpressionWithTypeArguments", pos |-> b + 30, end |-> b + 47,
                 expression |-> IdS(b, 30, 44, "ReadonlyArray", Symbol_ReadonlyArray),
                 typeArguments |-> <<TypeRef(b, 45, 46, IdS(b, 45, 46, "T", Symbol_T))>>],
                [kind |-> "ExpressionWithTypeArguments", pos |-> b + 48, end |-> b + 52,
                 expression |-> IdS(b, 48, 52, "Box", Symbol_Box)]>>]>>,
         members |-> <<[kind |-> "PropertySignature", pos |-> b + 54, end |-> b + 60,
             name |-> Id(b, 54, 56, "a"),
             type |-> TypeRef(b, 57, 59, IdS(b, 57, 59, "T", Symbol_T))],
            [kind |-> "MethodSignature", pos |-> b + 60, end |-> b + 72,
             name |-> Id(b, 60, 62, "m"),
             questionToken |-> TRUE,
             parameters |-> <<[kind |-> "Parameter", pos |-> b + 64, end |-> b + 65,
                 name |-> Id(b, 64, 65, "x")]>>,
             type |-> Tok("VoidKeyword", b, 67, 72)]>>]
      [] name = "classMembers" ->   \* export declare class K { constructor(n: number); p?: string; #q: P; r; }
        [kind |-> "ClassDeclaration", pos |-> b + 0, end |-> b + 73,
         modifiers |-> <<[kind |-> "ExportKeyword"], [kind |-> "DeclareKeyword"]>>,
         name |-> Id(b, 21, 23, "K"),
         members |-> <<[kind |-> "Constructor", pos |-> b + 25, end |-> b + 49,
             parameters |-> <<[kind |-> "Parameter", pos |-> b + 38, end |-> b + 47,
                 name |-> Id(b, 38, 39, "n"),
                 type |-> Tok("NumberKeyword", b, 40, 47)]>>],
            [kind |-> "PropertyDeclaration", pos |-> b + 49, end |-> b + 61,
             name |-> Id(b, 49, 51, "p"),
             questionToken |-> TRUE,
             type |-> Tok("StringKeyword", b, 53, 60)],
            [kind |-> "PropertyDeclaration", pos |-> b + 61, end |-> b + 68,
             name |-> Text("PrivateIdentifier", b, 61, 64, "#q"),
             type |-> TypeRef(b, 65, 67, IdS(b, 65, 67, "P", Symbol_P))],
            [kind |-> "PropertyDeclaration", pos |-> b + 68, end |-> b + 71,
             name |-> Id(b, 68, 70, "r")]>>]
      [] name = "classImplements" ->   \* declare class N implements P {}
        [kind |-> "ClassDeclaration", pos |-> b + 0, end |-> b + 32,
         modifiers |-> <<[kind |-> "DeclareKeyword"]>>,
         name |-> Id(b, 14, 16, "N"),
         heritageClauses |-> <<[kind |-> "HeritageClause", pos |-> b + 16, end |-> b + 29,
             token |-> "ImplementsKeyword",
             types |-> <<[kind |-> "ExpressionWithTypeArguments", pos |-> b + 27, end |-> b + 29,
                 expression |-> IdS(b, 27, 29, "P", Symbol_P)]>>]>>,
         members |-> <<>>]
      [] name = "classExtendsCall" ->   \* declare class R extends mixin(P) { a: Omit }
        [kind |-> "ClassDeclaration", pos |-> b + 0, end |-> b + 45,
         modifiers |-> <<[kind |-> "DeclareKeyword"]>>,
         name |-> Id(b, 14, 16, "R"),
         heritageClauses |-> <<[kind |-> "HeritageClause", pos |-> b + 16, end |-> b + 33,
             token |-> "ExtendsKeyword",
             types |-> <<[kind |-> "ExpressionWithTypeArguments", pos |-> b + 24, end |-> b + 33,
                 expression |-> Tok("CallExpression", b, 24, 33)]>>]>>,
         members |-> <<[kind |-> "PropertyDeclaration", pos |-> b + 35, end |-> b + 43,
             name |-> Id(b, 35, 37, "a"),
             type |-> TypeRef(b, 38, 43, IdS(b, 38, 43, "Omit", Symbol_Omit))]>>]
      [] name = "classStringName" ->   \* declare class S { "x-y": number }
        [kind |-> "ClassDeclaration", pos |-> b + 0, end |-> b + 34,
         modifiers |-> <<[kind |-> "DeclareKeyword"]>>,
         name |-> Id(b, 14, 16, "S"),
         members |-> <<[kind |-> "PropertyDeclaration", pos |-> b + 18, end |-> b + 32,
             name |-> Text("StringLiteral", b, 18, 24, "x-y"),
             type |-> Tok("NumberKeyword", b, 25, 32)]>>]
      [] name = "interfaceIndex" ->   \* export interface V { [k: string]: P }
        [kind |-> "InterfaceDeclaration", pos |-> b + 0, end |-> b + 38,
         modifiers |-> <<[kind |-> "ExportKeyword"]>>,
         name |-> Id(b, 17, 19, "V"),
         members |-> <<Tok("IndexSignature", b, 21, 36)>>]
      [] name = "classDefaultUnnamed" ->   \* export default class {}
        [kind |-> "ClassDeclaration", pos |-> b + 0, end |-> b + 24,
         modifiers |-> <<[kind |-> "ExportKeyword"], [kind |-> "DefaultKeyword"]>>,
         members |-> <<>>]
      [] name = "classUnnamed" ->   \* declare class {}
        [kind |-> "ClassDeclaration", pos |-> b + 0, end |-> b + 17,
         modifiers |-> <<[kind |-> "DeclareKeyword"]>>,
         members |-> <<>>]
      [] name = "classDefaultExtends" ->   \* export default class W extends Foo.Bar<P, Q> {}
        [kind |-> "ClassDeclaration", pos |-> b + 0, end |-> b + 48,
         modifiers |-> <<[kind |-> "ExportKeyword"], [kind |-> "DefaultKeyword"]>>,
         name |-> Id(b, 21, 23, "W"),
         heritageClauses |-> <<[kind |-> "HeritageClause", pos |-> b + 23, end |-> b + 45,
             token |-> "ExtendsKeyword",
             types |-> <<[kind |-> "ExpressionWithTypeArguments", pos |-> b + 31, end |-> b + 45,
                 expression |-> [kind |-> "PropertyAccessExpression", pos |-> b + 31, end |-> b + 39,
                   expression |-> IdS(b, 31, 35, "Foo", Symbol_Foo),
                   name |-> Id(b, 36, 39, "Bar"),
                   symbol |-> Symbol_Bar],
                 typeArguments |-> <<TypeRef(b, 40, 41, IdS(b, 40, 41, "P", Symbol_P)),
                    TypeRef(b, 42, 44, IdS(b, 42, 44, "Q", Symbol_Q))>>]>>]>>,
         members |-> <<>>]
      [] name = "importNamed" ->   \* import D, { a as b, P } from "m";
        [kind |-> "ImportDeclaration", pos |-> b + 0, end |-> b + 34,
         importClause |-> [kind |-> "ImportClause", pos |-> b + 7, end |-> b + 24,
           name |-> Id(b, 7, 9, "D"),
           namedBindings |-> [kind |-> "NamedImports", pos |-> b + 10, end |-> b + 24,
             elements |-> <<[kind |-> "ImportSpecifier", pos |-> b + 12, end |-> b + 19,
                 propertyName |-> Id(b, 12, 14, "a"),
                 name |-> IdS(b, 17, 19, "b", Symbol_ImportedValue)],
                [kind |-> "ImportSpecifier", pos |-> b + 20, end |-> b + 22,
                 name |-> IdS(b, 20, 22, "P", Symbol_ImportedType)]>>]],
         moduleSpecifier |-> Text("StringLiteral", b, 29, 33, "m")]
      [] name = "importNamespace" ->   \* import * as ns from "m";
        [kind |-> "ImportDeclaration", pos |-> b + 0, end |-> b + 25,
         importClause |-> [kind |-> "ImportClause", pos |-> b + 7, end |-> b + 15,
           namedBindings |-> [kind |-> "NamespaceImport", pos |-> b + 7, end |-> b + 15,
             name |-> Id(b, 12, 15, "ns")]],
         moduleSpecifier |-> Text("StringLiteral", b, 20, 24, "m")]
      [] name = "importBare" ->   \* import "m";
        [kind |-> "ImportDeclaration", pos |-> b + 0, end |-> b + 12,
         moduleSpecifier |-> Text("StringLiteral", b, 7, 11, "m")]
      [] name = "exportAll" ->   \* export * from "m";
        [kind |-> "ExportDeclaration", pos |-> b + 0, end |-> b + 19,
         isTypeOnly |-> FALSE,
         moduleSpecifier |-> Text("StringLiteral", b, 14, 18, "m")]
      [] name = "exportNamed" ->   \* export { a, type b as c };
        [kind |-> "ExportDeclaration", pos |-> b + 0, end |-> b + 27,
         isTypeOnly |-> FALSE,
         exportClause |-> [kind |-> "NamedExports", pos |-> b + 7, end |-> b + 26,
           elements |-> <<[kind |-> "ExportSpecifier", pos |-> b + 9, end |-> b + 11,
               isTypeOnly |-> FALSE,
               name |-> Id(b, 9, 11, "a")],
              [kind |-> "ExportSpecifier", pos |-> b + 12, end |-> b + 24,
               isTypeOnly |-> TRUE,
               propertyName |-> Id(b, 17, 19, "b"),
               name |-> Id(b, 22, 24, "c")]>>]]
      [] name = "exportNamespace" ->   \* export * as ns from "m";
        [kind |-> "ExportDeclaration", pos |-> b + 0, end |-> b + 25,
         isTypeOnly |-> FALSE,
         exportClause |-> [kind |-> "NamespaceExport", pos |-> b + 7, end |-> b + 15,
           name |-> Id(b, 12, 15, "ns")],
         moduleSpecifier |-> Text("StringLiteral", b, 20, 24, "m")]
      [] name = "exportDefault" ->   \* export default foo;
        [kind |-> "ExportAssignment", pos |-> b + 0, end |-> b + 20,
         expression |-> Id(b, 15, 19, "foo")]
      [] name = "exportEquals" ->   \* export = foo;
        [kind |-> "ExportAssignment", pos |-> b + 0, end |-> b + 14,
         isExportEquals |-> TRUE,
         expression |-> Id(b, 9, 13, "foo")]
      [] name = "classAccessor" ->   \* declare class Q2 { m(x?: P): void; get g(): Q }
        [kind |-> "ClassDeclaration", pos |-> b + 0, end |-> b + 48,
         modifiers |-> <<[kind |-> "DeclareKeyword"]>>,
         name |-> Id(b, 14, 17, "Q2"),
         members |-> <<[kind |-> "MethodDeclaration", pos |-> b + 19, end |-> b + 35,
             name |-> Id(b, 19, 21, "m"),
             parameters |-> <<[kind |-> "Parameter", pos |-> b + 22, end |-> b + 27,
                 name |-> Id(b, 22, 23, "x"),
                 questionToken |-> TRUE,
                 type |-> TypeRef(b, 25, 27, IdS(b, 25, 27, "P", Symbol_P))]>>,
             type |-> Tok("VoidKeyword", b, 29, 34)],
            [kind |-> "GetAccessor", pos |-> b + 35, end |-> b + 46,
             name |-> Id(b, 39, 41, "g")]>>]
      [] name = "aliasProps" ->   \* type M2 = { a?: string; b; c: P };
        [kind |-> "TypeAliasDeclaration", pos |-> b + 0, end |-> b + 35,
         name |-> Id(b, 5, 8, "M2"),
         type |-> [kind |-> "TypeLiteral", pos |-> b + 10, end |-> b + 34,
           members |-> <<[kind |-> "PropertySignature", pos |-> b + 12, end |-> b + 24,
               name |-> Id(b, 12, 14, "a"),
               questionToken |-> TRUE,
               type |-> Tok("StringKeyword", b, 16, 23)],
              [kind |-> "PropertySignature", pos |-> b + 24, end |-> b + 27,
               name |-> Id(b, 24, 26, "b")],
              [kind |-> "PropertySignature", pos |-> b + 27, end |-> b + 32,
               name |-> Id(b, 27, 29, "c"),
               type |-> TypeRef(b, 30, 32, IdS(b, 30, 32, "P", Symbol_P))]>>]]
      [] name = "aliasLiterals2" ->   \* type L2 = +1 | -10n | -42;
        [kind |-> "TypeAliasDeclaration", pos |-> b + 0, end |-> b + 27,
         name |-> Id(b, 5, 8, "L2"),
         type |-> [kind |-> "UnionType", pos |-> b + 10, end |-> b + 26,
           types |-> <<[kind |-> "LiteralType", pos |-> b + 10, end |-> b + 13,
               literal |-> [kind |-> "PrefixUnaryExpression", pos |-> b + 10, end |-> b + 13,
                 operator |-> "PlusToken",
                 operand |-> Text("NumericLiteral", b, 12, 13, "1")]],
              [kind |-> "LiteralType", pos |-> b + 15, end |-> b + 20,
               literal |-> [kind |-> "PrefixUnaryExpression", pos |-> b + 15, end |-> b + 20,
                 operator |-> "MinusToken",
                 operand |-> Text("BigIntLiteral", b, 17, 20, "10n")]],
              [kind |-> "LiteralType", pos |-> b + 22, end |-> b + 26,
               literal |-> [kind |-> "PrefixUnaryExpression", pos |-> b + 22, end |-> b + 26,
                 operator |-> "MinusToken",
                 operand |-> Text("NumericLiteral", b, 24, 26, "42")]]>>]]
      [] name = "aliasJsx" ->   \* type E2 = [ReactElement<any, any>, JSX.Element<P>];
        [kind |-> "TypeAliasDeclaration", pos |-> b + 0, end |-> b + 52,
         name |-> Id(b, 5, 8, "E2"),
         type |-> [kind |-> "TupleType", pos |-> b + 10, end |-> b + 51,
           elements |-> <<[kind |-> "TypeReference", pos |-> b + 12, end |-> b + 34,
               typeName |-> IdS(b, 12, 24, "ReactElement", Symbol_ReactElement),
               typeArguments |-> <<Tok("AnyKeyword", b, 25, 28), Tok("AnyKeyword", b, 29, 33)>>],
              [kind |-> "TypeReference", pos |-> b + 35, end |-> b + 50,
               typeName |-> [kind |-> "QualifiedName", pos |-> b + 35, end |-> b + 47,
                 left |-> IdS(b, 35, 39, "JSX", Symbol_JSX),
                 right |-> Id(b, 40, 47, "Element"),
                 symbol |-> Symbol_JsxElement],
               typeArguments |-> <<TypeRef(b, 48, 49, IdS(b, 48, 49, "P", Symbol_P))>>]>>]]
      [] name = "functionAfterRest" ->   \* declare function k(a: P, ...r: P[], z: Q): void;
        [kind |-> "FunctionDeclaration", pos |-> b + 0, end |-> b + 49,
         modifiers |-> <<[kind |-> "DeclareKeyword"]>>,
         name |-> Id(b, 17, 19, "k"),
         parameters |-> <<[kind |-> "Parameter", pos |-> b + 20, end |-> b + 24,
             name |-> Id(b, 20, 21, "a"),
             type |-> TypeRef(b, 22, 24, IdS(b, 22, 24, "P", Symbol_P))],
            [kind |-> "Parameter", pos |-> b + 25, end |-> b + 35,
             dotDotDotToken |-> TRUE,
             name |-> Id(b, 29, 30, "r"),
             type |-> [kind |-> "ArrayType", pos |-> b + 31, end |-> b + 35,
               elementType |-> TypeRef(b, 31, 33, IdS(b, 31, 33, "P", Symbol_P))]],
            [kind |-> "Parameter", pos |-> b + 36, end |-> b + 41,
             name |-> Id(b, 36, 38, "z"),
             type |-> TypeRef(b, 39, 41, IdS(b, 39, 41, "Q", Symbol_Q))]>>,
         type |-> Tok("VoidKeyword", b, 43, 48)]
      [] name = "aliasOmitComponent" ->   \* type O2 = Omit<React.Component<P>, "a">;
        [kind |-> "TypeAliasDeclaration", pos |-> b + 0, end |-> b + 41,
         name |-> Id(b, 5, 8, "O2"),
         type |-> [kind |-> "TypeReference", pos |-> b + 10, end |-> b + 40,
           typeName |-> IdS(b, 10, 15, "Omit", Symbol_Omit),
           typeArguments |-> <<[kind |-> "TypeReference", pos |-> b + 16, end |-> b + 34,
               typeName |-> [kind |-> "QualifiedName", pos |-> b + 16, end |-> b + 31,
                 left |-> IdS(b, 16, 21, "React", Symbol_React),
                 right |-> Id(b, 22, 31, "Component"),
                 symbol |-> Symbol_Component],
               typeArguments |-> <<TypeRef(b, 32, 33, IdS(b, 32, 33, "P", Symbol_P))>>],
              LiteralType(b, 35, 39, Text("StringLiteral", b, 35, 39, "a"))>>]]
      [] name = "namespace" ->   \* export declare namespace NS {}
        [kind |-> "ModuleDeclaration", pos |-> b + 0, end |-> b + 31,
         modifiers |-> <<[kind |-> "ExportKeyword"], [kind |-> "DeclareKeyword"]>>,
         name |-> Id(b, 25, 28, "NS")]
      [] name = "ifStatement" ->   \* if (x) {}
        Tok("IfStatement", b, 0, 10)

\* The text of a file made of the templates ks, in order.
RECURSIVE FileText(_)
FileText(ks) ==
    IF ks = <<>> THEN "" ELSE TemplateText(Head(ks)) \o FileText(Tail(ks))

\* ts.createSourceFile on that text.
MkSourceFile(ks) ==
    [fileName |-> "index.d.ts",
     text |-> FileText(ks),
     statements |-> [i \in 1..Len(ks) |->
                       Template(ks[i], Len(FileText(SubSeq(ks, 1, i - 1))))]]

\* The most statements a file of the model has.
MaxStatements == 2

SourceFiles ==
    {MkSourceFile(ks) : ks \in UNION {[1..n -> TemplateNames] : n \in 0..MaxStatements}}

\* The properties of a TS node that hold one child node, and those that hold
\* a NodeArray of children.
NodeFields ==
    {"name", "type", "typeName", "left", "right", "expression", "literal", "operand",
     "elementType", "objectType", "indexType", "checkType", "extendsType", "trueType",
     "falseType", "exprName", "constraint", "default", "declarationList",
     "importClause", "namedBindings", "propertyName", "moduleSpecifier", "exportClause"}

ListFields ==
    {"typeArguments", "types", "elements", "members", "parameters", "typeParameters",
     "declarations", "heritageClauses"}

\* ts.forEachChild, transitively: the node and everything under it.
RECURSIVE Descendants(_)
Descendants(node) ==
    {node}
    \cup UNION {Descendants(node[f]) : f \in NodeFields \cap DOMAIN node}
    \cup UNION {UNION {Descendants(node[f][i]) : i \in DOMAIN node[f]} :
                f \in ListFields \cap DOMAIN node}

\* The kinds of ts.TypeNode.
TypeNodeKinds ==
    {"UnknownKeyword", "AnyKeyword", "NeverKeyword", "UndefinedKeyword", "VoidKeyword",
     "BooleanKeyword", "NumberKeyword", "StringKeyword", "ObjectKeyword", "ThisType",
     "ParenthesizedType", "LiteralType", "TypeQuery", "TypeOperator", "TypeReference",
     "UnionType", "IntersectionType", "IndexedAccessType", "ArrayType", "TupleType",
     "FunctionType", "TypeLiteral", "TypePredicate", "ConstructorType", "OptionalType",
     "RestType", "ConditionalType", "InferType", "MappedType", "TemplateLiteralType",
     "TemplateLiteralTypeSpan", "ImportType", "NamedTupleMember",
     "ExpressionWithTypeArguments"}

\* Every type node of the file.
TypeNodes(file) ==
    UNION {{t \in Descendants(file.statements[i]) : t.kind \in TypeNodeKinds} :
           i \in DOMAIN file.statements}

----------------------------------------------------------------------------
(* The converter as a state machine *)

Init ==
    /\ sourceFile \in SourceFiles
    /\ out = Null
    /\ typeNode = Null
    /\ typeOut = Null
    /\ innerNode = Null
    /\ innerOut = Null
    /\ previous = Null

\* convertSourceFile(sourceFile, mapper, program): an exception of a callback
\* of statements.map leaves the call.
ConvertSourceFile ==
    /\ out = Null
    /\ out' = convertSourceFile(sourceFile)
    /\ UNCHANGED <<sourceFile, typeNode, typeOut, innerNode, innerOut, previous>>

Next == ConvertSourceFile

Spec == Init /\ [][Next]_vars

\* The type converter on its own, as a macro or any other holder of the
\* capability object calls it: on one type node of a file of one statement.
InitType ==
    /\ sourceFile \in {MkSourceFile(<<k>>) : k \in TemplateNames}
    /\ out = Null
    /\ typeNode = Null
    /\ typeOut = Null
    /\ innerNode = Null
    /\ innerOut = Null
    /\ previous = Null

\* converter.convertType(node)
ConvertType ==
    /\ typeNode = Null
    /\ \E node \in TypeNodes(sourceFile) :
         /\ typeNode' = node
         /\ typeOut' = convertType(node)
    /\ UNCHANGED <<sourceFile, out, innerNode, innerOut, previous>>

NextType == ConvertType

SpecType == InitType /\ [][NextType]_vars

\* convertSourceFile of the earlier convert.ts.
ConvertSourceFile_v1 ==
    /\ out = Null
    /\ out' = convertSourceFile_v1(sourceFile)
    /\ UNCHANGED <<sourceFile, typeNode, typeOut, innerNode, innerOut, previous>>

Next_v1 == ConvertSourceFile_v1

Spec_v1 == Init /\ [][Next_v1]_vars

\* Statements of ast-types (K.StatementKind) that are no Declaration, no
\* DeclareFunction and no EmptyStatement.
OtherStatements ==
    {[type |-> "ExpressionStatement", expression |-> b_identifier("foo")],
     [type |-> "BlockStatement", body |-> <<>>],
     [type |-> "DeclareVariable", id |-> b_identifier("v")],
     [type |-> "DeclareModuleExports",
      typeAnnotation |-> b_typeAnnotation(b_simple("AnyTypeAnnotation"))],
     [type |-> "DeclareModule", id |-> b_identifier("NS"),
      body |-> [type |-> "BlockStatement", body |-> <<>>]]}

\* The export step on its own, as its signature has it: on a statement of
\* the file that carries 'export' and on a converted statement, which is
\* what convertStatementExceptExport made of that statement or any other
\* K.StatementKind.
InitExport ==
    /\ sourceFile \in {f \in {MkSourceFile(<<k>>) : k \in TemplateNames} :
                         hasModifier(f.statements[1], "ExportKeyword")}
    /\ out = Null
    /\ typeNode = Null
    /\ typeOut = Null
    /\ innerNode \in {s \in {convertStatementExceptExport(sourceFile.statements[1])} :
                        ~IsThrow(s)}
                     \cup OtherStatements
    /\ innerOut = Null
    /\ previous = Null

\* modifyStatementAsExport(inner, node)
ModifyStatementAsExport ==
    /\ innerOut = Null
    /\ innerOut' = modifyStatementAsExport(innerNode, sourceFile.statements[1])
    /\ UNCHANGED <<sourceFile, out, typeNode, typeOut, innerNode, previous>>

NextExport == ModifyStatementAsExport

SpecExport == InitExport /\ [][NextExport]_vars

\* Two calls of convertSourceFile in a row, as the caller makes them for the
\* files of a project: first on a file that has a statement among sibling
\* statements, then on the file that has one of its statements alone.  The
\* siblings are a statement that converts, one that has no conversion, and
\* one whose conversion throws.
SiblingNames == {"aliasNumber", "ifStatement", "classStringName"}

\* The most sibling statements a statement has in the first file.
MaxSiblings == 1

SiblingLists == UNION {[1..n -> SiblingNames] : n \in 0..MaxSiblings}

ContextFiles ==
    {MkSourceFile(c[2] \o <<c[1]>> \o c[3]) :
       c \in {c \in TemplateNames \X SiblingLists \X SiblingLists :
                Len(c[2]) + Len(c[3]) <= MaxSiblings}}

InitAgain ==
    /\ sourceFile \in ContextFiles
    /\ out = Null
    /\ typeNode = Null
    /\ typeOut = Null
    /\ innerNode = Null
    /\ innerOut = Null
    /\ previous = Null

\* The caller goes on to the next file: the file made of one statement of
\* the present file, whose conversion it keeps.
NextSourceFile ==
    /\ out # Null
    /\ previous = Null
    /\ \E i \in DOMAIN sourceFile.statements :
         \E file \in {MkSourceFile(<<k>>) : k \in TemplateNames} :
           /\ file.text = Slice(sourceFile.text, sourceFile.statements[i].pos,
                                sourceFile.statements[i].end)
           /\ sourceFile' = file
    /\ out' = Null
    /\ previous' = [sourceFile |-> sourceFile, out |-> out]
    /\ UNCHANGED <<typeNode, typeOut, innerNode, innerOut>>

NextAgain == ConvertSourceFile \/ NextSourceFile

SpecAgain == InitAgain /\ [][NextAgain]_vars

----------------------------------------------------------------------------
(* Reading the output *)

\* convertSourceFile has returned a File.
Returned == out # Null /\ out.type = "File"

OutBody == out.program.body

StartsWith(s, prefix) ==
    Len(s) >= Len(prefix) /\ SubSeq(s, 1, Len(prefix)) = prefix

\* node.getFullText(): the node's span of the file text.
SourceSpan(node) == Slice(sourceFile.text, node.pos, node.end)

\* The children of an ast-types node, by node type.
FlowChildren(o) ==
    CASE o.type = "File" -> <<o.program>>
      [] o.type = "Program" -> o.body
      [] o.type = "TypeAlias" -> <<o.id, o.typeParameters, o.right>>
      [] o.type = "Identifier" ->
           IF Has(o, "typeAnnotation") THEN <<o.typeAnnotation>> ELSE <<>>
      [] o.type = "TypeAnnotation" -> <<o.typeAnnotation>>
      [] o.type = "GenericTypeAnnotation" -> <<o.id, o.typeParameters>>
      [] o.type \in {"TypeParameterInstantiation", "TypeParameterDeclaration"} -> o.params
      [] o.type = "TypeParameter" -> <<o.bound, o.default>>
      [] o.type = "QualifiedTypeIdentifier" -> <<o.qualification, o.id>>
      [] o.type = "ObjectTypeAnnotation" -> o.properties \o o.indexers \o o.callProperties
      [] o.type = "ObjectTypeProperty" -> <<o.key, o.value>>
      [] o.type = "ObjectTypeIndexer" -> <<o.id, o.key, o.value>>
      [] o.type = "FunctionTypeAnnotation" ->
           o.params \o <<o.returnType, o.rest, o.typeParameters>>
      [] o.type = "FunctionTypeParam" -> <<o.name, o.typeAnnotation>>
      [] o.type = "ArrayTypeAnnotation" -> <<o.elementType>>
      [] o.type \in {"TupleTypeAnnotation", "UnionTypeAnnotation",
                     "IntersectionTypeAnnotation"} -> o.types
      [] o.type = "TypeofTypeAnnotation" -> <<o.argument>>
      [] o.type = "VariableDeclaration" -> o.declarations
      [] o.type = "VariableDeclarator" -> <<o.id, o.init>>
      [] o.type = "DeclareFunction" -> <<o.id>>
      [] o.type \in {"DeclareClass", "DeclareInterface", "InterfaceDeclaration"} ->
           <<o.id, o.typeParameters>> \o o.extends \o <<o.body>>
      [] o.type = "InterfaceExtends" -> <<o.id, o.typeParameters>>
      [] o.type \in {"DeclareExportDeclaration", "ExportDefaultDeclaration"} ->
           <<o.declaration>>
      [] o.type = "ExportNamedDeclaration" ->
           <<o.declaration>> \o o.specifiers \o <<o.source>>
      [] o.type = "ExportAllDeclaration" -> <<o.source, o.exported>>
      [] o.type = "ImportDeclaration" -> o.specifiers \o <<o.source>>
      [] o.type = "ImportSpecifier" -> <<o.imported, o.local>>
      [] o.type \in {"ImportDefaultSpecifier", "ImportNamespaceSpecifier"} -> <<o.local>>
      [] o.type = "ExportSpecifier" -> <<o.local, o.exported>>
      [] o.type = "ExportNamespaceSpecifier" -> <<o.exported>>
      [] OTHER -> <<>>

\* The node and every node under it.
RECURSIVE FlowNodes(_)
FlowNodes(o) ==
    {o} \cup UNION {FlowNodes(FlowChildren(o)[i]) : i \in DOMAIN FlowChildren(o)}

\* The comments attached to a node.
CommentsOf(o) == IF Has(o, "comments") THEN o.comments ELSE <<>>

EmptyStatements(o) == {s \in FlowNodes(o) : s.type = "EmptyStatement"}

\* $FlowFixMe types: the generic annotations whose id is that name.
FlowFixMeTypes(o) ==
    {t \in FlowNodes(o) : /\ t.type = "GenericTypeAnnotation"
                          /\ t.id = b_identifier("$FlowFixMe")}

IsUnimplementedComment(c) == StartsWith(c.value, " tsflower-unimplemented: ")

IsErrorComment(c) == StartsWith(c.value, " tsflower-error: ")

\* A diagnostic comment: one that begins with the tool's tag, whatever its level.
IsDiagnosticComment(c) == StartsWith(c.value, " tsflower-")

----------------------------------------------------------------------------
(* Claims *)

\* C1: convertStatement is total.  Whatever the statements of the file are,
\* convertSourceFile returns a File with one output statement per input
\* statement and no exception reaches it; and for every statement whose try
\* block threw with message M, the output statement is an empty statement
\* carrying two comments, the first the tsflower-error diagnostic
\* "internal error: M".
C1_ConvertStatementTotal ==
    out # Null =>
      /\ out.type = "File"
      /\ Len(OutBody) = Len(sourceFile.statements)
      /\ \A i \in DOMAIN sourceFile.statements :
           LET thrown == convertStatement_try(sourceFile.statements[i])
               o == OutBody[i]
           IN IsThrow(thrown) =>
                /\ o.type = "EmptyStatement"
                /\ Len(o.comments) = 2
                /\ o.comments[1].value =
                     " tsflower-error: internal error: " \o thrown.message \o " "

\* C1 witness: a returned file one of whose statements threw inside the try
\* block and came out as an empty statement.
C1_Witness ==
    /\ Returned
    /\ \E i \in DOMAIN sourceFile.statements :
         /\ IsThrow(convertStatement_try(sourceFile.statements[i]))
         /\ OutBody[i].type = "EmptyStatement"

\* A statement the converter has no conversion for: its try block throws, or
\* ends in an unimplemented or error statement.
Unconvertible(node) ==
    LET result == convertStatement_try(node)
    IN IsThrow(result) \/ result.type = "EmptyStatement"

UnconvertibleAt == {i \in DOMAIN sourceFile.statements :
                      Unconvertible(sourceFile.statements[i])}

\* C2: fallback containment.  When exactly one statement of the file is
\* unconvertible, convertSourceFile returns a File whose body has one output
\* per input statement, in source order: at the position of the unconvertible
\* statement an empty statement with two comments that quotes that statement,
\* and at every other position the declaration its own statement converts to,
\* which is no empty statement.
C2_FallbackContainment ==
    (out # Null /\ Cardinality(UnconvertibleAt) = 1) =>
      /\ out.type = "File"
      /\ Len(OutBody) = Len(sourceFile.statements)
      /\ \A j \in DOMAIN sourceFile.statements :
           IF j \in UnconvertibleAt
           THEN /\ OutBody[j].type = "EmptyStatement"
                /\ Len(OutBody[j].comments) = 2
                /\ OutBody[j].comments[2].value =
                     " " \o SourceSpan(sourceFile.statements[j]) \o " "
           ELSE /\ OutBody[j].type # "EmptyStatement"
                /\ OutBody[j] = convertStatement(sourceFile.statements[j])

\* C2 witness: a returned file of MaxStatements statements with exactly one
\* unconvertible statement, so one placeholder beside real declarations.
C2_Witness ==
    /\ Returned
    /\ Len(sourceFile.statements) = MaxStatements
    /\ Cardinality(UnconvertibleAt) = 1
    /\ \E j \in DOMAIN OutBody : OutBody[j].type # "EmptyStatement"
    /\ \E j \in DOMAIN OutBody : OutBody[j].type = "EmptyStatement"

\* The placeholder types of the output: the $FlowFixMe annotations that carry comments.
PlaceholderTypes(o) == {t \in FlowFixMeTypes(o) : Has(t, "comments")}

\* C3 as the specification states it: the quoting comment of every
\* placeholder statement is the source span of its statement, with nothing
\* added.
C3_QuoteEqualsSpan ==
    Returned =>
      \A i \in DOMAIN OutBody :
        OutBody[i].type = "EmptyStatement" =>
          OutBody[i].comments[2].value = SourceSpan(sourceFile.statements[i])

\* C3, as the code has it: the quoting comment of every placeholder is the
\* source span of its node, unaltered, framed by one space before and one
\* after.  For a placeholder statement the node is the statement at its
\* position; for a placeholder type anywhere in the output it is a type node
\* of the file that converts to exactly this placeholder.
C3_QuoteIsFramedSpan ==
    Returned =>
      /\ \A i \in DOMAIN OutBody :
           OutBody[i].type = "EmptyStatement" =>
             OutBody[i].comments[2].value =
               " " \o SourceSpan(sourceFile.statements[i]) \o " "
      /\ \A p \in PlaceholderTypes(out) :
           \E t \in TypeNodes(sourceFile) :
             /\ convertType(t) = p
             /\ p.comments[1].value = " " \o SourceSpan(t) \o " "

\* C3 witness: a returned file with a placeholder statement that is not the
\* first statement of the file, and a placeholder type.
C3_Witness ==
    /\ Returned
    /\ \E i \in DOMAIN OutBody : i > 1 /\ OutBody[i].type = "EmptyStatement"
    /\ PlaceholderTypes(out) # {}

\* Every node of the input file.
SourceNodes ==
    UNION {Descendants(sourceFile.statements[i]) : i \in DOMAIN sourceFile.statements}

SingleLine(s) == \A k \in 1..Len(s) : SubSeq(s, k, k) # "\n"

\* A single-line diagnostic of one of the two forms, with a reason.
IsDiagnostic(c) ==
    /\ c.type = "CommentBlock"
    /\ \/ /\ IsUnimplementedComment(c)
          /\ Len(c.value) > Len(" tsflower-unimplemented: ")
       \/ /\ IsErrorComment(c)
          /\ Len(c.value) > Len(" tsflower-error: ")
    /\ SingleLine(c.value)

\* A comment quoting the source text of one of the given nodes.
IsQuoteOf(c, nodes) ==
    /\ c.type = "CommentBlock"
    /\ \E n \in nodes : c.value = " " \o SourceSpan(n) \o " "

\* The two comments of a placeholder statement: diagnostic, then quote.
HasStatementComments(s) ==
    /\ Has(s, "comments")
    /\ Len(s.comments) = 2
    /\ IsDiagnostic(s.comments[1])
    /\ IsQuoteOf(s.comments[2], Range(sourceFile.statements))

\* The two comments of a placeholder type: quote, then diagnostic.
HasTypeComments(t) ==
    /\ Has(t, "comments")
    /\ Len(t.comments) = 2
    /\ IsQuoteOf(t.comments[1], TypeNodes(sourceFile))
    /\ IsDiagnostic(t.comments[2])

\* C4 as the specification states it: every empty statement and every
\* $FlowFixMe type of the output carries exactly two comments, a quote of the
\* source and a diagnostic.
C4_NoBarePlaceholder ==
    Returned =>
      /\ \A s \in EmptyStatements(out) : HasStatementComments(s)
      /\ \A t \in FlowFixMeTypes(out) : HasTypeComments(t)

\* C4, as the code has it: every empty statement of the output carries
\* exactly two comments, a single-line diagnostic of one of the two forms and
\* a quote of its statement; every $FlowFixMe type that carries comments
\* carries exactly those two; and a $FlowFixMe type with no comments comes
\* only from a name the source itself spells $FlowFixMe.
C4_PlaceholderComments ==
    Returned =>
      /\ \A s \in EmptyStatements(out) : HasStatementComments(s)
      /\ \A t \in FlowFixMeTypes(out) :
           IF Has(t, "comments")
           THEN HasTypeComments(t)
           ELSE \E n \in SourceNodes :
                  n.kind = "Identifier" /\ n.text = "$FlowFixMe"

\* C4 witness: a returned file with a placeholder statement and a placeholder
\* type.
C4_Witness ==
    /\ Returned
    /\ EmptyStatements(out) # {}
    /\ PlaceholderTypes(out) # {}

\* Every comment attached to a node of the tree o.
AllComments(o) == UNION {Range(CommentsOf(n)) : n \in FlowNodes(o)}

\* C5: in the File convertSourceFile returns, every comment that is a
\* diagnostic (begins with the tool's tag) is a tsflower-unimplemented or a
\* tsflower-error comment; no tsflower-warning or other form is attached to
\* any node.
C5_OnlyTwoDiagnosticForms ==
    Returned =>
      \A c \in AllComments(out) :
        IsDiagnosticComment(c) => IsUnimplementedComment(c) \/ IsErrorComment(c)

\* C5 witness: a returned file in which an exported statement went through
\* the export step as a declaration, and which carries a diagnostic of each
\* of the two forms or of one of them.
C5_Witness ==
    /\ Returned
    /\ \E i \in DOMAIN OutBody :
         /\ hasModifier(sourceFile.statements[i], "ExportKeyword")
         /\ OutBody[i].type = "ExportNamedDeclaration"
    /\ \E c \in AllComments(out) : IsDiagnosticComment(c)

\* The error statements the heritage-clause loop of the earlier
\* convertClassLikeDeclaration built for a statement and let go of.
HeritageErrors_v1(node) ==
    IF node.kind \in {"ClassDeclaration", "InterfaceDeclaration"} /\ Has(node, "name")
    THEN LET heritage == forEachHeritageClause_v1(node, 1, <<>>, <<>>)
         IN IF IsThrow(heritage) THEN <<>> ELSE heritage.discarded
    ELSE <<>>

\* The export step of the earlier convertStatement met a converted statement
\* it has no export form for.
ExportWarned_v1(node) ==
    LET inner == convertStatementExceptExport_v1(node)
    IN /\ ~IsThrow(inner)
       /\ hasModifier(node, "ExportKeyword")
       /\ ~n_Declaration_check(inner)
       /\ inner.type # "EmptyStatement"

\* Converting the statement met an unsupported or invalid construct: the try
\* block threw, a branch built an unimplemented or error statement (returned
\* or, in the heritage-clause loop, not), a placeholder type was built into
\* the conversion, or the export step could not apply.
Detected_v1(node) ==
    LET attempt == convertStatement_try_v1(node)
    IN \/ IsThrow(attempt)
       \/ attempt.type = "EmptyStatement"
       \/ PlaceholderTypes(attempt) # {}
       \/ HeritageErrors_v1(node) # <<>>
       \/ ExportWarned_v1(node)

\* C6: no error is silently dropped.  For every statement whose conversion
\* met an unsupported or invalid construct, the output statement carries, on
\* itself or on a node under it, a tsflower-unimplemented or tsflower-error
\* comment.
C6_NoErrorDropped ==
    Returned =>
      \A i \in DOMAIN OutBody :
        Detected_v1(sourceFile.statements[i]) =>
          \E c \in AllComments(OutBody[i]) :
            IsUnimplementedComment(c) \/ IsErrorComment(c)

\* The named references of a statement: type references, and the bases of
\* heritage clauses.
SourceReferences(statement) ==
    {n \in Descendants(statement) :
       n.kind \in {"TypeReference", "ExpressionWithTypeArguments"}}

ReferenceName(ref) ==
    IF ref.kind = "TypeReference" THEN ref.typeName ELSE ref.expression

\* The mapper's FixedName answer for the symbol of a name, or undefined.
FixedNameOf(name) ==
    LET symbol == checker_getSymbolAtLocation(name)
        mapped == IF IsUndefined(symbol) THEN Undefined ELSE mapper_getSymbol(symbol)
    IN IF IsUndefined(mapped) THEN Undefined
       ELSE IF mapped.type = "FixedName" THEN mapped ELSE Undefined

\* The reference ref came out, somewhere under o, as the bare identifier R
\* with its type arguments converted in order.
EmittedAs(ref, R, o) ==
    \E g \in FlowNodes(o) :
      /\ g.type \in {"GenericTypeAnnotation", "InterfaceExtends"}
      /\ g.id = b_identifier(R)
      /\ g.typeParameters =
           convertTypeArguments(ReferenceName(ref), Opt(ref, "typeArguments"))

\* C7: rewrite precedence.  In every statement that was converted, every
\* named reference whose symbol the mapper maps to a FixedName rule R, in a
\* type position or as the base of an 'extends' clause, comes out as the bare
\* identifier R with its type arguments converted in order.
C7_FixedNamePrecedence ==
    Returned =>
      \A i \in DOMAIN OutBody :
        OutBody[i].type # "EmptyStatement" =>
          \A ref \in SourceReferences(sourceFile.statements[i]) :
            ~IsUndefined(FixedNameOf(ReferenceName(ref))) =>
              EmittedAs(ref, FixedNameOf(ReferenceName(ref)).name, OutBody[i])

\* The macro the mapper gives for the symbol of a name, or undefined.
MacroOf(name) ==
    LET symbol == checker_getSymbolAtLocation(name)
        mapped == IF IsUndefined(symbol) THEN Undefined ELSE mapper_getSymbol(symbol)
    IN IF IsUndefined(mapped) THEN Undefined
       ELSE IF mapped.type = "TypeReferenceMacro" THEN mapped ELSE Undefined

ArgumentCount(ref) ==
    IF Has(ref, "typeArguments") THEN Len(ref.typeArguments) ELSE 0

\* A macro-backed type reference with a number of type arguments its macro
\* does not take: Omit with other than 2, React.Component or ReactElement
\* with more than 2.
BadCountReference(ref) ==
    /\ ref.kind = "TypeReference"
    /\ ~IsUndefined(MacroOf(ref.typeName))
    /\ \/ /\ MacroOf(ref.typeName).convert = "convertOmit"
          /\ ArgumentCount(ref) # 2
       \/ /\ MacroOf(ref.typeName).convert \in
               {"convertReactComponent", "convertReactElement"}
          /\ ArgumentCount(ref) > 2

\* The error placeholder for the node: $FlowFixMe with no arguments, a quote
\* of the node's span and a tsflower-error diagnostic.
IsErrorPlaceholderFor(o, node) ==
    /\ o.type = "GenericTypeAnnotation"
    /\ o.id = b_identifier("$FlowFixMe")
    /\ o.typeParameters = Null
    /\ Len(o.comments) = 2
    /\ o.comments[1].value = " " \o SourceSpan(node) \o " "
    /\ IsErrorComment(o.comments[2])

\* C8: macro argument-count validation.  For a macro-backed reference with an
\* unsupported number of type arguments the macro returns an error outcome
\* and does not throw, and convertType gives the error placeholder for that
\* reference, with the macro's description.  A union or tuple with such a
\* member is converted member by member, the placeholder at the member's
\* position; and a type alias or variable statement that holds the reference
\* is still converted to a declaration, which contains the placeholder.
C8_MacroArgumentCount ==
    typeNode # Null =>
      /\ BadCountReference(typeNode) =>
           LET outcome == convertTypeReferenceLike(typeNode.typeName,
                                                   Opt(typeNode, "typeArguments"))
           IN /\ ~IsThrow(outcome)
              /\ outcome.kind = "error"
              /\ IsErrorPlaceholderFor(typeOut, typeNode)
              /\ typeOut.comments[2].value =
                   " tsflower-error: " \o outcome.description \o " "
              /\ \A i \in DOMAIN sourceFile.statements :
                   LET s == sourceFile.statements[i]
                   IN (/\ s.kind \in {"TypeAliasDeclaration", "VariableStatement"}
                       /\ typeNode \in Descendants(s)) =>
                        /\ convertStatement(s).type \in {"TypeAlias", "VariableDeclaration"}
                        /\ typeOut \in FlowNodes(convertStatement(s))
      /\ (/\ typeNode.kind \in {"UnionType", "TupleType"}
          /\ \E k \in DOMAIN (IF typeNode.kind = "UnionType" THEN typeNode.types
                              ELSE typeNode.elements) :
               BadCountReference((IF typeNode.kind = "UnionType" THEN typeNode.types
                                  ELSE typeNode.elements)[k])) =>
           LET members == IF typeNode.kind = "UnionType" THEN typeNode.types
                          ELSE typeNode.elements
           IN /\ typeOut.type \in {"UnionTypeAnnotation", "TupleTypeAnnotation"}
              /\ Len(typeOut.types) = Len(members)
              /\ \A k \in DOMAIN members :
                   /\ typeOut.types[k] = convertType(members[k])
                   /\ BadCountReference(members[k]) =>
                        IsErrorPlaceholderFor(typeOut.types[k], members[k])

\* C8 witness: convertType has been called on an Omit reference with no type
\* arguments at all and has returned a $FlowFixMe placeholder.
C8_Witness ==
    /\ typeNode # Null
    /\ BadCountReference(typeNode)
    /\ MacroOf(typeNode.typeName).convert = "convertOmit"
    /\ ArgumentCount(typeNode) = 0
    /\ typeOut \in FlowFixMeTypes(typeOut)

\* The declarations a name refers to: those of its symbol or, for a name an
\* import brought in, those of the symbol the import is an alias of.
ReferencedDeclarations(name) ==
    LET symbol == checker_getSymbolAtLocation(name)
    IN IF IsUndefined(symbol) THEN <<>>
       ELSE IF Has(symbol, "aliased") /\ Has(symbol.aliased, "declarations")
       THEN symbol.aliased.declarations
       ELSE symbol.declarations

TakesTypeParameters(name) ==
    \E d \in Range(ReferencedDeclarations(name)) : Has(d, "typeParameters")

\* C9: default-argument elision.  For a type reference that no macro
\* converts: written without a type-argument list, it comes out with an
\* omitted (null) list if and only if the declaration it refers to takes no
\* type parameters, and with an explicit empty list otherwise; written with a
\* list, it comes out with the list of the converted arguments, in order.
C9_ElisionPolicy ==
    (/\ typeNode # Null
     /\ typeNode.kind = "TypeReference"
     /\ IsUndefined(MacroOf(typeNode.typeName))
     /\ ~IsThrow(typeOut)) =>
      IF Has(typeNode, "typeArguments")
      THEN typeOut.typeParameters =
             b_typeParameterInstantiation(convertTypes(typeNode.typeArguments))
      ELSE /\ (typeOut.typeParameters = Null) <=> ~TakesTypeParameters(typeNode.typeName)
           /\ TakesTypeParameters(typeNode.typeName) =>
                typeOut.typeParameters = b_typeParameterInstantiation(<<>>)

\* C10: convertType is total.  For every type node of every file, convertType
\* returns a Flow type node, real or placeholder, and throws nothing.
C10_ConvertTypeTotal ==
    typeNode # Null => (/\ ~IsThrow(typeOut)
                        /\ Has(typeOut, "type")
                        /\ typeOut.type # "EmptyStatement")

\* The statement kinds that are executable statements, which a declaration
\* file has none of.
ExecutableStatementKinds ==
    {"ExpressionStatement", "IfStatement", "DoStatement", "WhileStatement",
     "ForStatement", "ForInStatement", "ForOfStatement", "ContinueStatement",
     "BreakStatement", "ReturnStatement", "WithStatement", "SwitchStatement",
     "LabeledStatement", "ThrowStatement", "TryStatement", "DebuggerStatement",
     "CaseBlock"}

\* C11: every top-level statement of an executable kind comes out as an
\* invalid placeholder: an empty statement whose diagnostic comment is of the
\* tsflower-error form and not of the tsflower-unimplemented form.
C11_ExecutableIsInvalid ==
    Returned =>
      \A i \in DOMAIN OutBody :
        sourceFile.statements[i].kind \in ExecutableStatementKinds =>
          /\ OutBody[i].type = "EmptyStatement"
          /\ IsErrorComment(OutBody[i].comments[1])
          /\ ~IsUnimplementedComment(OutBody[i].comments[1])

\* What the export step is to make of the converted statement 'inner' of the
\* source statement 'node' that carries 'export'; FALSE for a converted
\* statement of a shape none of the four rules is about.
ExportedAs(o, inner, node) ==
    CASE inner.type \in {"DeclareFunction", "DeclareClass"} ->
           /\ o.type = "DeclareExportDeclaration"
           /\ o.default = hasModifier(node, "DefaultKeyword")
           /\ o.declaration = inner
      [] inner.type = "DeclareInterface" ->
           /\ o.type = "ExportNamedDeclaration"
           /\ o.declaration.type = "InterfaceDeclaration"
           /\ o.declaration.id = inner.id
           /\ o.declaration.typeParameters = inner.typeParameters
           /\ o.declaration.extends = inner.extends
           /\ o.declaration.body = inner.body
           /\ o.specifiers = <<>>
      [] inner.type \in {"VariableDeclaration", "TypeAlias", "ImportDeclaration",
                         "ExportNamedDeclaration", "ExportDefaultDeclaration",
                         "ExportAllDeclaration"} ->
           /\ o.type = "ExportNamedDeclaration"
           /\ o.declaration = inner
           /\ o.specifiers = <<>>
      [] inner.type = "EmptyStatement" -> o = inner
      [] OTHER -> FALSE

\* The output for a statement without 'export': the converted statement.
NotWrapped(o, inner) == o = inner

\* C12: the export step.  For every statement of the file whose conversion
\* did not throw: if the statement carries 'export', a converted
\* DeclareFunction or DeclareClass comes out inside a DeclareExportDeclaration
\* whose default flag is whether the statement also carries 'default'; a
\* converted DeclareInterface comes out as an InterfaceDeclaration of the same
\* id, type parameters, extends and body inside an ExportNamedDeclaration;
\* any other declaration comes out inside an ExportNamedDeclaration; an empty
\* statement comes out as it is.  If the statement carries no 'export', the
\* converted statement comes out as it is.
C12_ExportStep ==
    Returned =>
      \A i \in DOMAIN OutBody :
        LET node == sourceFile.statements[i]
        IN ~IsThrow(convertStatementExceptExport(node)) =>
             IF hasModifier(node, "ExportKeyword")
             THEN ExportedAs(OutBody[i], convertStatementExceptExport(node), node)
             ELSE NotWrapped(OutBody[i], convertStatementExceptExport(node))

\* C12 witness: a returned file of two exported statements, one a function or
\* class exported as the default and wrapped with the default flag set, the
\* other an interface that came out as an InterfaceDeclaration inside a
\* named export.
C12_Witness ==
    /\ Returned
    /\ \E i \in DOMAIN OutBody :
         /\ hasModifier(sourceFile.statements[i], "ExportKeyword")
         /\ hasModifier(sourceFile.statements[i], "DefaultKeyword")
         /\ OutBody[i].type = "DeclareExportDeclaration"
         /\ OutBody[i].default
    /\ \E i \in DOMAIN OutBody :
         /\ sourceFile.statements[i].kind = "InterfaceDeclaration"
         /\ hasModifier(sourceFile.statements[i], "ExportKeyword")
         /\ OutBody[i].type = "ExportNamedDeclaration"
         /\ OutBody[i].declaration.type = "InterfaceDeclaration"

\* The export step was handed a converted statement that is neither a
\* declaration nor an empty statement.
ExportOfNonDeclaration ==
    /\ innerOut # Null
    /\ ~n_Declaration_check(innerNode)
    /\ innerNode.type \notin {"DeclareFunction", "DeclareClass", "DeclareInterface",
                              "EmptyStatement"}

CapabilityNames ==
    {"convertType", "errorType", "unimplementedType", "crudeError",
     "convertEntityNameAsType"}

\* The call ended in the TypeError of invoking an operation the capability
\* object does not have.
MissingCapability(result) ==
    /\ IsThrow(result)
    /\ \E method \in CapabilityNames :
         result.message = "converter." \o method \o " is not a function"

\* C14: every operation a registered macro invokes on the capability object
\* is one the object convertSourceFile constructs provides: converting a
\* macro-backed reference with a number of type arguments its macro takes
\* never fails for a missing capability.
C14_MacroCapabilitiesProvided ==
    (/\ typeNode # Null
     /\ typeNode.kind = "TypeReference"
     /\ ~IsUndefined(MacroOf(typeNode.typeName))
     /\ ~BadCountReference(typeNode)) =>
      ~MissingCapability(typeOut)

\* The function type of a converted function declaration, exported or not;
\* Null when the statement came out as something else.
FunctionTypeOf(o) ==
    IF o.type = "DeclareFunction" THEN o.id.typeAnnotation.typeAnnotation
    ELSE IF o.type = "DeclareExportDeclaration" /\ o.declaration.type = "DeclareFunction"
    THEN o.declaration.id.typeAnnotation.typeAnnotation
    ELSE Null

\* The indexes of the rest parameters of a function declaration.
RestParameters(node) ==
    {k \in DOMAIN node.parameters : Has(node.parameters[k], "dotDotDotToken")}

\* The rest parameter of the output function type 'fn' is the conversion of
\* the source parameter 'param', which is the r-th.
IsRestOf(fn, param, r) ==
    /\ fn.rest # Null
    /\ fn.rest.type = "FunctionTypeParam"
    /\ fn.rest.name = b_identifier(param.name.text)
    /\ fn.rest.optional = FALSE
    /\ fn.rest.typeAnnotation =
         IF Has(param, "type") THEN convertType(param.type)
         ELSE b_arrayTypeAnnotation(b_simple("AnyTypeAnnotation"))
    /\ Len(fn.params) = r - 1

\* C15: rest parameters.  For every function declaration that converts to a
\* (possibly exported) DeclareFunction: a rest parameter of the source is the
\* rest parameter of the output function type, with its declared type
\* converted or, where the source gives none, the type array of any, after
\* the ordinary parameters before it; a function without a rest parameter
\* has none in the output.  And 'declare function f(...xs): void;' converts
\* to the DeclareFunction f of no ordinary parameters, the rest parameter xs
\* of type array of any, and the return type void.
C15_RestParameter ==
    Returned =>
      \A i \in DOMAIN OutBody :
        /\ (/\ sourceFile.statements[i].kind = "FunctionDeclaration"
            /\ FunctionTypeOf(OutBody[i]) # Null) =>
             IF RestParameters(sourceFile.statements[i]) = {}
             THEN FunctionTypeOf(OutBody[i]).rest = Null
             ELSE \A r \in RestParameters(sourceFile.statements[i]) :
                    IsRestOf(FunctionTypeOf(OutBody[i]),
                             sourceFile.statements[i].parameters[r], r)
        /\ SourceSpan(sourceFile.statements[i]) = "\ndeclare function f(...xs): void;" =>
             OutBody[i] =
               [type |-> "DeclareFunction",
                id |-> [type |-> "Identifier", name |-> "f",
                        typeAnnotation |->
                          [type |-> "TypeAnnotation",
                           typeAnnotation |->
                             [type |-> "FunctionTypeAnnotation",
                              params |-> <<>>,
                              returnType |-> [type |-> "VoidTypeAnnotation"],
                              rest |-> [type |-> "FunctionTypeParam",
                                        name |-> [type |-> "Identifier", name |-> "xs"],
                                        typeAnnotation |->
                                          [type |-> "ArrayTypeAnnotation",
                                           elementType |-> [type |-> "AnyTypeAnnotation"]],
                                        optional |-> FALSE],
                              typeParameters |-> Null]]]]

\* C15 witness: a returned file with the function f(...xs) of the example
\* converted to a DeclareFunction, beside a function whose rest parameter has
\* a declared type.
C15_Witness ==
    /\ Returned
    /\ \E i \in DOMAIN OutBody :
         /\ SourceSpan(sourceFile.statements[i]) = "\ndeclare function f(...xs): void;"
         /\ OutBody[i].type = "DeclareFunction"
    /\ \E i \in DOMAIN OutBody :
         /\ sourceFile.statements[i].kind = "FunctionDeclaration"
         /\ FunctionTypeOf(OutBody[i]) # Null
         /\ \E r \in RestParameters(sourceFile.statements[i]) :
              Has(sourceFile.statements[i].parameters[r], "type")

\* The class or interface declaration a statement came out as, exported or
\* not; Null when it came out as something else.
ClassLikeOf(o) ==
    IF o.type \in {"DeclareClass", "DeclareInterface"} THEN o
    ELSE IF /\ o.type \in {"DeclareExportDeclaration", "ExportNamedDeclaration"}
            /\ o.declaration.type \in {"DeclareClass", "InterfaceDeclaration"}
    THEN o.declaration
    ELSE Null

\* The bases of the 'extends' clauses of a class or interface, in source order.
RECURSIVE ExtendsBases(_)
ExtendsBases(clauses) ==
    IF clauses = <<>> THEN <<>>
    ELSE (IF Head(clauses).token = "ExtendsKeyword" THEN Head(clauses).types ELSE <<>>)
         \o ExtendsBases(Tail(clauses))

\* The names a plain or qualified name of the source is made of, in order.
RECURSIVE NamePath(_)
NamePath(name) ==
    IF name.kind = "Identifier" THEN <<name.text>>
    ELSE IF name.kind = "QualifiedName" THEN NamePath(name.left) \o <<name.right.text>>
    ELSE NamePath(name.expression) \o <<name.name.text>>

\* The names of an output id, an Identifier or a QualifiedTypeIdentifier
\* nested to the left, in order; <<>> for anything else.
RECURSIVE IdPath(_)
IdPath(id) ==
    IF id.type = "Identifier" THEN <<id.name>>
    ELSE IF /\ id.type = "QualifiedTypeIdentifier"
            /\ id.id.type = "Identifier"
            /\ IdPath(id.qualification) # <<>>
    THEN IdPath(id.qualification) \o <<id.id.name>>
    ELSE <<>>

\* The extends entry 'e' is the conversion of the base 'base'.
IsExtendsOf(e, base) ==
    /\ e.type = "InterfaceExtends"
    /\ IdPath(e.id) = NamePath(base.expression)
    /\ IF Has(base, "typeArguments")
       THEN /\ e.typeParameters.type = "TypeParameterInstantiation"
            /\ e.typeParameters.params =
                 [k \in DOMAIN base.typeArguments |-> convertType(base.typeArguments[k])]
       ELSE \/ e.typeParameters = Null
            \/ e.typeParameters = b_typeParameterInstantiation(<<>>)

\* The conversion of a class or interface has one extends entry per base of
\* the source, in source order.
ExtendsOf(decl, bases) ==
    /\ Len(decl.extends) = Len(bases)
    /\ \A k \in DOMAIN bases : IsExtendsOf(decl.extends[k], bases[k])

\* C16: 'extends' bases.  For every class or interface that converts to a
\* declaration, the declaration has one extends entry per base of the
\* source, in source order; the id of each is the base's name with its full
\* qualification in order, as an Identifier or a QualifiedTypeIdentifier
\* nested to the left, and its type arguments are the conversions of the
\* base's type arguments in order.  And 'interface I extends Foo.Bar<number>
\* {}' converts to the interface I with the one extends entry Foo.Bar<number>.
C16_ExtendsBases ==
    Returned =>
      \A i \in DOMAIN OutBody :
        /\ (/\ sourceFile.statements[i].kind \in {"ClassDeclaration", "InterfaceDeclaration"}
            /\ ClassLikeOf(OutBody[i]) # Null) =>
             ExtendsOf(ClassLikeOf(OutBody[i]),
                       ExtendsBases(IF Has(sourceFile.statements[i], "heritageClauses")
                                    THEN sourceFile.statements[i].heritageClauses
                                    ELSE <<>>))
        /\ SourceSpan(sourceFile.statements[i]) = "\ninterface I extends Foo.Bar<number> {}" =>
             /\ OutBody[i].type = "DeclareInterface"
             /\ OutBody[i].id = [type |-> "Identifier", name |-> "I"]
             /\ OutBody[i].extends =
                  <<[type |-> "InterfaceExtends",
                     id |-> [type |-> "QualifiedTypeIdentifier",
                             qualification |-> [type |-> "Identifier", name |-> "Foo"],
                             id |-> [type |-> "Identifier", name |-> "Bar"]],
                     typeParameters |->
                       [type |-> "TypeParameterInstantiation",
                        params |-> <<[type |-> "NumberTypeAnnotation"]>>]]>>

\* C16 witness: a returned file with the interface of the example beside a
\* declaration with two bases, or with a qualified base of two type arguments.
C16_Witness ==
    /\ Returned
    /\ \E i \in DOMAIN OutBody :
         /\ SourceSpan(sourceFile.statements[i]) = "\ninterface I extends Foo.Bar<number> {}"
         /\ OutBody[i].type = "DeclareInterface"
    /\ \E i \in DOMAIN OutBody :
         /\ ClassLikeOf(OutBody[i]) # Null
         /\ \/ Len(ClassLikeOf(OutBody[i]).extends) = 2
            \/ \E k \in DOMAIN ClassLikeOf(OutBody[i]).extends :
                 /\ ClassLikeOf(OutBody[i]).extends[k].typeParameters # Null
                 /\ Len(ClassLikeOf(OutBody[i]).extends[k].typeParameters.params) = 2

\* The statement at index i of the earlier file has the text of the
\* statement at index j of the present file.
SameStatement(i, j) ==
    Slice(previous.sourceFile.text, previous.sourceFile.statements[i].pos,
          previous.sourceFile.statements[i].end)
      = SourceSpan(sourceFile.statements[j])

\* C17: statement independence.  When convertSourceFile has converted a file
\* and then a file that has one of its statements without the siblings, the
\* statement has the same output node in both results: the siblings before
\* and after it, their order, the offset they put it at, and whether one of
\* them failed with an exception make no difference, and nothing of the
\* first call is left to the second.
C17_StatementIndependence ==
    (previous # Null /\ Returned) =>
      /\ previous.out.type = "File"
      /\ \A i \in DOMAIN previous.sourceFile.statements :
           \A j \in DOMAIN sourceFile.statements :
             SameStatement(i, j) => previous.out.program.body[i] = OutBody[j]

\* C17 witness: the statement converted alone was, in the earlier file, the
\* second statement, after a sibling whose conversion threw, and it came out
\* as a declaration.
C17_Witness ==
    /\ previous # Null
    /\ Returned
    /\ Len(previous.sourceFile.statements) = 2
    /\ SameStatement(2, 1)
    /\ previous.out.program.body[2].type # "EmptyStatement"
    /\ \E c \in AllComments(previous.out.program.body[1]) :
         StartsWith(c.value, " tsflower-error: internal error: ")

\* The variable declaration a converted statement holds, through the export
\* wrapper of an exported group; Null for any other output statement.
VariableDeclarationOf(o) ==
    IF o.type = "VariableDeclaration" THEN o
    ELSE IF o.type = "ExportNamedDeclaration" /\ o.declaration # Null
            /\ o.declaration.type = "VariableDeclaration"
    THEN o.declaration
    ELSE Null

\* C19: every variable group of the file comes out as a variable declaration
\* of kind 'var', whether the source keyword was const, let or var, with one
\* declarator per source declarator, in source order, each keeping its name
\* and carrying the converted type annotation, or none if the source had none.
C19_VariableGroupIsVar ==
    Returned =>
      \A i \in DOMAIN OutBody :
        sourceFile.statements[i].kind = "VariableStatement" =>
          LET decl == VariableDeclarationOf(OutBody[i])
              list == sourceFile.statements[i].declarationList.declarations
          IN /\ decl # Null
             /\ decl.kind = "var"
             /\ Len(decl.declarations) = Len(list)
             /\ \A k \in DOMAIN list :
                  /\ decl.declarations[k].id.type = "Identifier"
                  /\ decl.declarations[k].id.name = list[k].name.text
                  /\ IF Has(list[k], "type")
                     THEN /\ Has(decl.declarations[k].id, "typeAnnotation")
                          /\ decl.declarations[k].id.typeAnnotation.typeAnnotation
                               = convertType(list[k].type)
                     ELSE ~Has(decl.declarations[k].id, "typeAnnotation")

\* The declaration kinds that may come without a name.
NamedDeclarationKinds ==
    {"FunctionDeclaration", "ClassDeclaration", "InterfaceDeclaration"}

\* The diagnostics of the two paths a declaration without a name takes.
NoNameUnimplemented ==
    {" tsflower-unimplemented: 'export default function' with no name ",
     " tsflower-unimplemented: 'export default class' with no name "}

NoNameInvalid ==
    {" tsflower-error: expected name on FunctionDeclaration ",
     " tsflower-error: anonymous class not in 'export default' "}

\* C20: a function, class or interface declaration without a name comes out
\* as a bare empty statement, never wrapped by the export step, whose first
\* comment is the unimplemented diagnostic if the declaration has both
\* 'export' and 'default' and the invalid diagnostic otherwise, and whose
\* second comment quotes the statement; the output of a declaration with a
\* name carries neither diagnostic.
C20_UnnamedDeclaration ==
    Returned =>
      \A i \in DOMAIN OutBody :
        LET node == sourceFile.statements[i]
        IN node.kind \in NamedDeclarationKinds =>
             IF ~Has(node, "name")
             THEN /\ OutBody[i].type = "EmptyStatement"
                  /\ Len(OutBody[i].comments) = 2
                  /\ OutBody[i].comments[1].value \in
                       (IF hasModifier(node, "ExportKeyword")
                           /\ hasModifier(node, "DefaultKeyword")
                        THEN NoNameUnimplemented ELSE NoNameInvalid)
                  /\ OutBody[i].comments[2].value
                       = " " \o Slice(sourceFile.text, node.pos, node.end) \o " "
             ELSE \A c \in AllComments(OutBody[i]) :
                    c.value \notin NoNameUnimplemented \cup NoNameInvalid

\* A file with a default-exported function without a name, a class without a
\* name that has 'export' only or no modifier, and a converted named class.
C20_Witness ==
    /\ Returned
    /\ \E i \in DOMAIN OutBody :
         /\ sourceFile.statements[i].kind = "FunctionDeclaration"
         /\ ~Has(sourceFile.statements[i], "name")
         /\ hasModifier(sourceFile.statements[i], "DefaultKeyword")
         /\ OutBody[i].comments[1].value \in NoNameUnimplemented
    /\ \E i \in DOMAIN OutBody :
         /\ ~Has(sourceFile.statements[i], "name")
         /\ ~hasModifier(sourceFile.statements[i], "DefaultKeyword")
         /\ OutBody[i].comments[1].value \in NoNameInvalid

\* A placeholder type that stands for the type node t itself: the $FlowFixMe
\* annotation whose first comment quotes t.
IsPlaceholderTypeFor(o, t) ==
    /\ ~IsThrow(o)
    /\ o.type = "GenericTypeAnnotation"
    /\ o.id = b_identifier("$FlowFixMe")
    /\ Has(o, "comments")
    /\ o.comments[1] = quotedInlineNode(t)

\* The type nodes under a statement that stand in a position convertType is
\* applied to (the bases of a heritage clause are converted as entity names).
TypePositions(statement) ==
    {t \in Descendants(statement) :
       t.kind \in TypeNodeKinds \ {"ExpressionWithTypeArguments"}}

\* The type nodes of a statement the converter has no conversion for:
\* convertType answers with a placeholder type for the node, or throws.
FailingTypes(statement) ==
    {t \in TypePositions(statement) :
       IsThrow(convertType(t)) \/ IsPlaceholderTypeFor(convertType(t), t)}

\* u lies strictly inside t.
Inside(u, t) == u # t /\ t.pos <= u.pos /\ u.end <= t.end

\* The type nodes of a statement that are unimplemented or invalid and lie
\* inside no other such type.
OuterFailingTypes(statement) ==
    {t \in FailingTypes(statement) :
       \A f \in FailingTypes(statement) : ~Inside(t, f)}

\* The source node with every type node of 'types' under it replaced by the
\* keyword type 'any' at the same position.
RECURSIVE WithSupported(_, _)
WithSupported(node, types) ==
    IF node \in types THEN Tok("AnyKeyword", 0, node.pos, node.end)
    ELSE [f \in DOMAIN node |->
            IF f \in NodeFields THEN WithSupported(node[f], types)
            ELSE IF f \in ListFields
                 THEN [k \in DOMAIN node[f] |-> WithSupported(node[f][k], types)]
                 ELSE node[f]]

\* The properties of an output node that hold one child node or Null, and
\* those that hold a list of child nodes.
FlowNodeFields(o) ==
    CASE o.type = "File" -> {"program"}
      [] o.type = "TypeAlias" -> {"id", "typeParameters", "right"}
      [] o.type = "Identifier" -> {"typeAnnotation"}
      [] o.type = "TypeAnnotation" -> {"typeAnnotation"}
      [] o.type = "GenericTypeAnnotation" -> {"id", "typeParameters"}
      [] o.type = "TypeParameter" -> {"bound", "default"}
      [] o.type = "QualifiedTypeIdentifier" -> {"qualification", "id"}
      [] o.type = "ObjectTypeProperty" -> {"key", "value"}
      [] o.type = "ObjectTypeIndexer" -> {"id", "key", "value"}
      [] o.type = "FunctionTypeAnnotation" -> {"returnType", "rest", "typeParameters"}
      [] o.type = "FunctionTypeParam" -> {"name", "typeAnnotation"}
      [] o.type = "ArrayTypeAnnotation" -> {"elementType"}
      [] o.type = "TypeofTypeAnnotation" -> {"argument"}
      [] o.type = "VariableDeclarator" -> {"id", "init"}
      [] o.type = "DeclareFunction" -> {"id"}
      [] o.type \in {"DeclareClass", "DeclareInterface", "InterfaceDeclaration"} ->
           {"id", "typeParameters", "body"}
      [] o.type = "InterfaceExtends" -> {"id", "typeParameters"}
      [] o.type \in {"DeclareExportDeclaration", "ExportDefaultDeclaration",
                     "ExportNamedDeclaration"} -> {"declaration"}
      [] OTHER -> {}

FlowListFields(o) ==
    CASE o.type = "Program" -> {"body"}
      [] o.type \in {"TypeParameterInstantiation", "TypeParameterDeclaration"} ->
           {"params"}
      [] o.type = "ObjectTypeAnnotation" -> {"properties", "indexers", "callProperties"}
      [] o.type = "FunctionTypeAnnotation" -> {"params"}
      [] o.type \in {"TupleTypeAnnotation", "UnionTypeAnnotation",
                     "IntersectionTypeAnnotation"} -> {"types"}
      [] o.type = "VariableDeclaration" -> {"declarations"}
      [] o.type \in {"DeclareClass", "DeclareInterface", "InterfaceDeclaration"} ->
           {"extends"}
      [] OTHER -> {}

\* The output node with every node of 'placeholders' under it replaced by
\* the type 'any'.
RECURSIVE WithAny(_, _)
WithAny(o, placeholders) ==
    IF o \in placeholders THEN b_simple("AnyTypeAnnotation")
    ELSE [f \in DOMAIN o |->
            IF f \in FlowNodeFields(o) THEN WithAny(o[f], placeholders)
            ELSE IF f \in FlowListFields(o)
                 THEN [k \in DOMAIN o[f] |-> WithAny(o[f][k], placeholders)]
                 ELSE o[f]]

\* The placeholder types under an output node that stand for one of 'types'.
PlaceholdersFor(o, types) ==
    {p \in FlowNodes(o) : \E t \in types : IsPlaceholderTypeFor(p, t)}

\* C18: placeholder granularity.  Take a statement with unimplemented or
\* invalid types under it that converts to a declaration once those types
\* are supported (each replaced by the keyword type 'any').  Its output is
\* that same declaration but for a placeholder type at the position of each
\* failing type that lies inside no other: the statement is no empty
\* statement, and nothing else of it changes, the conversion of every other
\* type included.
C18_PlaceholderGranularity ==
    Returned =>
      \A i \in DOMAIN OutBody :
        LET statement == sourceFile.statements[i]
            outer == OuterFailingTypes(statement)
            supported == convertStatement(WithSupported(statement, outer))
        IN (outer # {} /\ supported.type # "EmptyStatement") =>
             /\ OutBody[i].type # "EmptyStatement"
             /\ \A t \in outer : PlaceholdersFor(OutBody[i], {t}) # {}
             /\ WithAny(OutBody[i], PlaceholdersFor(OutBody[i], outer)) = supported

\* The member kinds a class or interface has no conversion for yet.
UnimplementedMemberKinds ==
    {"CallSignature", "ConstructSignature", "GetAccessor", "SetAccessor",
     "IndexSignature"}

\* The class or interface gets as far as its members: it has a name, and
\* its heritage clauses are 'extends' clauses of plain or qualified names.
ReachesMembers(node) ==
    /\ Has(node, "name")
    /\ Has(node, "heritageClauses") =>
         \A c \in DOMAIN node.heritageClauses :
           /\ node.heritageClauses[c].token = "ExtendsKeyword"
           /\ \A k \in DOMAIN node.heritageClauses[c].types :
                LET expression == node.heritageClauses[c].types[k].expression
                IN /\ ts_isIdentifier(expression)
                      \/ ts_isPropertyAccessExpression(expression)
                   /\ isEntityNameOrEntityNameExpression(expression)

\* A member of one of the forms that yield a property or nothing: a
\* constructor, or a property or method whose name is an identifier or a
\* private name, with a signature or type that converts.
MemberConverts(member) ==
    CASE member.kind = "Constructor" -> ~IsThrow(convertFunctionType(member))
      [] member.kind \in {"PropertySignature", "PropertyDeclaration"} ->
           /\ member.name.kind \in {"Identifier", "PrivateIdentifier"}
           /\ Has(member, "type") => ~IsThrow(convertType(member.type))
      [] member.kind \in {"MethodSignature", "MethodDeclaration"} ->
           /\ member.name.kind \in {"Identifier", "PrivateIdentifier"}
           /\ ~IsThrow(convertFunctionType(member))
      [] OTHER -> FALSE

IsPrivateNamed(member) ==
    Has(member, "name") /\ member.name.kind = "PrivateIdentifier"

NotPrivateNamed(member) == ~IsPrivateNamed(member)

\* The output property p is what the member is to yield.
IsPropertyOf(p, member) ==
    /\ p.type = "ObjectTypeProperty"
    /\ CASE member.kind = "Constructor" ->
              /\ p.key = b_identifier("constructor")
              /\ p.optional = FALSE
              /\ p.value.type = "FunctionTypeAnnotation"
              /\ Len(p.value.params) + (IF p.value.rest = Null THEN 0 ELSE 1)
                   = Len(member.parameters)
         [] member.kind \in {"PropertySignature", "PropertyDeclaration"} ->
              /\ p.key = b_identifier(member.name.text)
              /\ p.optional = Has(member, "questionToken")
              /\ p.value = IF Has(member, "type") THEN convertType(member.type)
                           ELSE b_simple("AnyTypeAnnotation")
         [] member.kind \in {"MethodSignature", "MethodDeclaration"} ->
              /\ p.key = b_identifier(member.name.text)
              /\ p.optional = Has(member, "questionToken")
              /\ p.value.type = "FunctionTypeAnnotation"
              /\ Len(p.value.params) + (IF p.value.rest = Null THEN 0 ELSE 1)
                   = Len(member.parameters)
         [] OTHER -> FALSE

IsNameBase(base) ==
    /\ ts_isIdentifier(base.expression) \/ ts_isPropertyAccessExpression(base.expression)
    /\ isEntityNameOrEntityNameExpression(base.expression)

\* A heritage clause the converter passes: an 'extends' clause whose bases
\* are names with type arguments that convert.
ClausePasses(clause) ==
    /\ clause.token = "ExtendsKeyword"
    /\ \A k \in DOMAIN clause.types :
         /\ IsNameBase(clause.types[k])
         /\ Has(clause.types[k], "typeArguments") =>
              \A a \in DOMAIN clause.types[k].typeArguments :
                ~IsThrow(convertType(clause.types[k].typeArguments[a]))

\* The named classes and interfaces with heritage clauses whose type
\* parameters convert: the heritage clauses are what the converter takes next.
ReachesHeritage(node) ==
    /\ node.kind \in {"ClassDeclaration", "InterfaceDeclaration"}
    /\ Has(node, "name")
    /\ Has(node, "heritageClauses")
    /\ ~IsThrow(convertTypeParameterDeclaration(Opt(node, "typeParameters")))

UnimplementedTypeElementKinds ==
    {"CallSignature", "ConstructSignature", "MethodSignature", "GetAccessor",
     "SetAccessor", "IndexSignature"}

\* C23: convertTypeLiteral.  An object-type literal whose members are all
\* property signatures converts to an exact object type that is not inexact
\* and has no indexers and no call properties, with one property per member
\* in source order: the member's name, its optionality, and its converted
\* type, or any if it has none.  A literal with a call, construct, method,
\* get, set or index signature among its members converts to one
\* unimplemented placeholder type that stands for the whole literal.
C23_TypeLiteral ==
    (typeNode # Null /\ typeNode.kind = "TypeLiteral") =>
      /\ (\A k \in DOMAIN typeNode.members :
            typeNode.members[k].kind = "PropertySignature") =>
           /\ ~IsThrow(typeOut)
           /\ typeOut.type = "ObjectTypeAnnotation"
           /\ typeOut.exact /\ ~typeOut.inexact
           /\ typeOut.indexers = <<>> /\ typeOut.callProperties = <<>>
           /\ Len(typeOut.properties) = Len(typeNode.members)
           /\ \A k \in DOMAIN typeNode.members :
                LET member == typeNode.members[k]
                    p == typeOut.properties[k]
                IN /\ p.type = "ObjectTypeProperty"
                   /\ Has(member.name, "text")
                   /\ p.key = b_identifier(member.name.text)
                   /\ p.optional = Has(member, "questionToken")
                   /\ p.value = IF Has(member, "type") THEN convertType(member.type)
                                ELSE b_simple("AnyTypeAnnotation")
      /\ (\E k \in DOMAIN typeNode.members :
            typeNode.members[k].kind \in UnimplementedTypeElementKinds) =>
           /\ IsPlaceholderTypeFor(typeOut, typeNode)
           /\ Len(typeOut.comments) = 2
           /\ IsUnimplementedComment(typeOut.comments[2])

\* The kinds of node convertFunctionType is applied to.
SignatureKinds ==
    {"FunctionType", "FunctionDeclaration", "Constructor", "MethodSignature",
     "MethodDeclaration"}

\* How many parameters of the signature come before its first rest parameter.
LeadingParameters(node) ==
    IF RestParameters(node) = {} THEN Len(node.parameters)
    ELSE (CHOOSE r \in RestParameters(node) :
            \A s \in RestParameters(node) : r <= s) - 1

\* The function type fn has the ordinary parameters and the return type of
\* the signature 'node'.
IsSignatureOf(fn, node) ==
    /\ fn.type = "FunctionTypeAnnotation"
    /\ Len(fn.params) = LeadingParameters(node)
    /\ \A k \in 1..LeadingParameters(node) :
         LET param == node.parameters[k]
         IN /\ fn.params[k].type = "FunctionTypeParam"
            /\ fn.params[k].name =
                 IF param.name.kind = "Identifier" THEN b_identifier(param.name.text)
                 ELSE Null
            /\ fn.params[k].typeAnnotation =
                 IF Has(param, "type") THEN convertType(param.type)
                 ELSE b_simple("AnyTypeAnnotation")
            /\ fn.params[k].optional = Has(param, "questionToken")
    /\ fn.returnType = IF Has(node, "type") THEN convertType(node.type)
                       ELSE b_simple("AnyTypeAnnotation")

\* C24: the parameters before a rest parameter, and the return type.  The
\* function type of every converted function declaration, and every function
\* type of the output that comes from a constructor, a method or a function
\* type node of the statement, has one parameter per source parameter before
\* the first rest parameter, in order: named as the source parameter if that
\* name is an identifier and without a name otherwise, typed with the
\* converted type or any if there is none, optional iff the source parameter
\* is; its return type is the converted return type, or any if the signature
\* has none, and a function type node always has one.
C24_FunctionParameters ==
    Returned =>
      \A i \in DOMAIN OutBody :
        LET statement == sourceFile.statements[i]
        IN /\ (statement.kind = "FunctionDeclaration"
               /\ FunctionTypeOf(OutBody[i]) # Null) =>
                IsSignatureOf(FunctionTypeOf(OutBody[i]), statement)
           /\ \A node \in {d \in Descendants(statement) : d.kind \in SignatureKinds} :
                /\ node.kind = "FunctionType" => Has(node, "type")
                /\ convertFunctionType(node) \in FlowNodes(OutBody[i]) =>
                     IsSignatureOf(convertFunctionType(node), node)

\* A converted function declaration with a typed, an untyped optional and a
\* pattern-named parameter before its rest parameter and a function type as
\* its return type, and one without a return type.
C24_Witness ==
    /\ Returned
    /\ \E i \in DOMAIN OutBody :
         LET statement == sourceFile.statements[i]
             fn == FunctionTypeOf(OutBody[i])
         IN /\ statement.kind = "FunctionDeclaration"
            /\ fn # Null
            /\ Len(fn.params) = 3
            /\ fn.params[2].optional
            /\ fn.params[2].typeAnnotation = b_simple("AnyTypeAnnotation")
            /\ fn.params[3].name = Null
            /\ fn.returnType.type = "FunctionTypeAnnotation"
            /\ fn.returnType \in {convertFunctionType(d) :
                                    d \in {d \in Descendants(statement) :
                                             d.kind = "FunctionType"}}
    /\ \E i \in DOMAIN OutBody :
         /\ sourceFile.statements[i].kind = "FunctionDeclaration"
         /\ ~Has(sourceFile.statements[i], "type")
         /\ FunctionTypeOf(OutBody[i]) # Null
         /\ FunctionTypeOf(OutBody[i]).returnType = b_simple("AnyTypeAnnotation")

\* The invalid placeholder type for the type node t: a $FlowFixMe annotation
\* that quotes t and carries a tsflower-error diagnostic.
IsInvalidTypeFor(o, t) ==
    /\ IsPlaceholderTypeFor(o, t)
    /\ Len(o.comments) = 2
    /\ IsErrorComment(o.comments[2])

\* C25: convertLiteralType.  A null, true, false, numeric or string literal
\* type converts to the literal type of the same value; unary minus on the
\* numeric literal N converts to the numeric literal type of value -N; a
\* prefix-unary literal with another operator or with an operand that is no
\* numeric literal, and a big-integer literal, convert to an invalid
\* placeholder type.  Nothing is thrown.
C25_LiteralType ==
    (typeNode # Null /\ typeNode.kind = "LiteralType") =>
      LET literal == typeNode.literal
      IN /\ ~IsThrow(typeOut)
         /\ CASE literal.kind = "NullKeyword" ->
                   typeOut.type = "NullLiteralTypeAnnotation"
              [] literal.kind = "TrueKeyword" ->
                   typeOut = b_booleanLiteralTypeAnnotation(TRUE, "true")
              [] literal.kind = "FalseKeyword" ->
                   typeOut = b_booleanLiteralTypeAnnotation(FALSE, "false")
              [] literal.kind = "NumericLiteral" ->
                   /\ typeOut.type = "NumberLiteralTypeAnnotation"
                   /\ typeOut.numberValue = Number(literal.text)
              [] literal.kind = "StringLiteral" ->
                   /\ typeOut.type = "StringLiteralTypeAnnotation"
                   /\ typeOut.stringValue = literal.text
              [] literal.kind = "PrefixUnaryExpression" ->
                   IF literal.operator = "MinusToken"
                      /\ literal.operand.kind = "NumericLiteral"
                   THEN /\ typeOut.type = "NumberLiteralTypeAnnotation"
                        /\ typeOut.numberValue = 0 - Number(literal.operand.text)
                   ELSE IsInvalidTypeFor(typeOut, typeNode)
              [] literal.kind = "BigIntLiteral" ->
                   IsInvalidTypeFor(typeOut, typeNode)
              [] OTHER -> TRUE

\* convertType has returned the invalid placeholder for a unary plus.
C25_Witness ==
    /\ typeNode # Null
    /\ typeNode.kind = "LiteralType"
    /\ typeNode.literal.kind = "PrefixUnaryExpression"
    /\ typeNode.literal.operator = "PlusToken"
    /\ IsInvalidTypeFor(typeOut, typeNode)

\* The type reference is one the mapper answers with the given macro.
IsMacroReference(node, convert) ==
    /\ node.kind = "TypeReference"
    /\ ~IsUndefined(MacroOf(node.typeName))
    /\ MacroOf(node.typeName).convert = convert

\* React$Element<arg>
ReactElementOf(arg) ==
    b_genericTypeAnnotation(b_identifier("React$Element"),
                            b_typeParameterInstantiation(<<arg>>))

\* C26: the ReactElement macro.  A ReactElement reference with no type
\* argument converts to React$Element<React$ElementType>, with one argument
\* P to React$Element<React$ComponentType<convert(P)>>, with two arguments
\* (P, T) to React$Element<convert(T)>: one type argument in each case.
\* With more than two arguments the macro's outcome is an error, and the
\* reference converts to an invalid placeholder type.
C26_ReactElementMacro ==
    (typeNode # Null /\ IsMacroReference(typeNode, "convertReactElement")) =>
      LET outcome == convertTypeReferenceLike(typeNode.typeName,
                                              Opt(typeNode, "typeArguments"))
      IN CASE ArgumentCount(typeNode) = 0 ->
                /\ outcome.kind = "success"
                /\ typeOut = ReactElementOf(
                               b_genericTypeAnnotation(b_identifier("React$ElementType"),
                                                       Null))
           [] ArgumentCount(typeNode) = 1 ->
                /\ outcome.kind = "success"
                /\ typeOut = ReactElementOf(
                               b_genericTypeAnnotation(
                                 b_identifier("React$ComponentType"),
                                 b_typeParameterInstantiation(
                                   <<convertType(typeNode.typeArguments[1])>>)))
           [] ArgumentCount(typeNode) = 2 ->
                /\ outcome.kind = "success"
                /\ typeOut = ReactElementOf(convertType(typeNode.typeArguments[2]))
           [] OTHER ->
                /\ outcome.kind = "error"
                /\ IsInvalidTypeFor(typeOut, typeNode)

\* convertType has been applied to the ReactElement reference with the two
\* type arguments (P, Q) and has returned React$Element<Q>.
C26_Witness ==
    /\ typeNode # Null
    /\ IsMacroReference(typeNode, "convertReactElement")
    /\ ArgumentCount(typeNode) = 2
    /\ typeNode.typeArguments[1].kind = "TypeReference"
    /\ typeOut.type = "GenericTypeAnnotation"
    /\ Len(typeOut.typeParameters.params) = 1
    /\ typeOut.typeParameters.params[1].id = b_identifier("Q")

\* The type arguments (any, any), as a macro receives them.
AnyAny ==
    [length |-> 2,
     items |-> <<Tok("AnyKeyword", 0, 0, 3), Tok("AnyKeyword", 0, 4, 8)>>]

\* C27: the JSX.Element rewrite.  A reference to the global JSX.Element
\* converts, whatever type arguments it carries, to React$Element<any>, and
\* the macro's outcome is a success equal to the outcome of the ReactElement
\* macro for the two arguments (any, any).
C27_JsxElement ==
    (typeNode # Null /\ IsMacroReference(typeNode, "convertJsxElement")) =>
      LET outcome == convertTypeReferenceLike(typeNode.typeName,
                                              Opt(typeNode, "typeArguments"))
      IN /\ outcome.kind = "success"
         /\ outcome = convertReactElement(converter, typeNode.typeName, AnyAny)
         /\ typeOut = ReactElementOf(b_simple("AnyTypeAnnotation"))

\* convertType has been applied to a JSX.Element reference that carries a
\* type argument.
C27_Witness ==
    /\ typeNode # Null
    /\ IsMacroReference(typeNode, "convertJsxElement")
    /\ ArgumentCount(typeNode) = 1
    /\ typeOut = ReactElementOf(b_simple("AnyTypeAnnotation"))

\* The names a keys type gives when it is a string-literal type or a union
\* of string-literal types, in union order; the empty sequence otherwise.
LiteralKeyNames(keysType) ==
    IF keysType.kind = "LiteralType"
    THEN IF keysType.literal.kind = "StringLiteral"
         THEN <<keysType.literal.text>> ELSE <<>>
    ELSE IF keysType.kind = "UnionType"
    THEN IF \A i \in DOMAIN keysType.types :
              /\ keysType.types[i].kind = "LiteralType"
              /\ keysType.types[i].literal.kind = "StringLiteral"
         THEN [i \in DOMAIN keysType.types |-> keysType.types[i].literal.text]
         ELSE <<>>
    ELSE <<>>

\* The exact object type { "n1": mixed, ..., "nk": mixed }.
MixedObjectOf(names) ==
    [type |-> "ObjectTypeAnnotation",
     properties |-> [i \in DOMAIN names |->
                       [type |-> "ObjectTypeProperty",
                        key |-> [type |-> "StringLiteral", value |-> names[i]],
                        value |-> [type |-> "MixedTypeAnnotation"],
                        optional |-> FALSE]],
     indexers |-> <<>>, callProperties |-> <<>>,
     exact |-> TRUE, inexact |-> FALSE]

\* The exact object type { [key: keyType]: mixed }.
MixedIndexerOf(keyType) ==
    [type |-> "ObjectTypeAnnotation",
     properties |-> <<>>,
     indexers |-> <<[type |-> "ObjectTypeIndexer",
                     id |-> [type |-> "Identifier", name |-> "key"],
                     key |-> keyType,
                     value |-> [type |-> "MixedTypeAnnotation"]]>>,
     callProperties |-> <<>>,
     exact |-> TRUE, inexact |-> FALSE]

\* $Diff<object, subtrahend>
DiffOf(object, subtrahend) ==
    b_genericTypeAnnotation(b_identifier("$Diff"),
                            b_typeParameterInstantiation(<<object, subtrahend>>))

\* C28: the Omit macro.  An Omit reference with exactly two type arguments
\* (O, K) converts to $Diff<convert(O), S>, S an exact object type: one
\* required property of type mixed per string literal when K is a
\* string-literal type or a union of string-literal types, in union order;
\* otherwise no property and the one indexer [key: convert(K)]: mixed.
C28_OmitMacro ==
    (/\ typeNode # Null
     /\ IsMacroReference(typeNode, "convertOmit")
     /\ ArgumentCount(typeNode) = 2) =>
      LET objectType == typeNode.typeArguments[1]
          keysType == typeNode.typeArguments[2]
          outcome == convertTypeReferenceLike(typeNode.typeName,
                                              Opt(typeNode, "typeArguments"))
      IN /\ ~IsThrow(outcome)
         /\ outcome.kind = "success"
         /\ typeOut = DiffOf(convertType(objectType),
                             IF LiteralKeyNames(keysType) # <<>>
                             THEN MixedObjectOf(LiteralKeyNames(keysType))
                             ELSE MixedIndexerOf(convertType(keysType)))

\* The signature without the parameters after its first rest parameter.
UpToFirstRest(node) ==
    IF RestParameters(node) = {} THEN node
    ELSE [node EXCEPT !.parameters =
            SubSeq(node.parameters, 1, LeadingParameters(node) + 1)]

\* The parameters of the signature that come after its first rest parameter.
AfterFirstRest(node) ==
    IF RestParameters(node) = {} THEN {}
    ELSE {k \in DOMAIN node.parameters : k > LeadingParameters(node) + 1}

\* The parameters of a function type of the output, the rest parameter
\* included.
OutputParameters(fn) ==
    Range(fn.params) \cup (IF fn.rest = Null THEN {} ELSE {fn.rest})

\* The function type fn, which came from the signature 'node', has nothing of
\* the parameters after the first rest parameter of 'node'.
DropsAfterFirstRest(fn, node) ==
    /\ fn.type = "FunctionTypeAnnotation"
    /\ fn.rest = Null \/ fn.rest.type = "FunctionTypeParam"
    /\ \A p \in Range(fn.params) : p.type = "FunctionTypeParam"
    /\ Len(fn.params) = LeadingParameters(node)
    /\ (fn.rest # Null) = (RestParameters(node) # {})
    /\ Cardinality(OutputParameters(fn)) <=
         Len(node.parameters) - Cardinality(AfterFirstRest(node))
    /\ \A k \in AfterFirstRest(node) :
         node.parameters[k].name.kind = "Identifier" =>
           \A p \in OutputParameters(fn) :
             p.name # b_identifier(node.parameters[k].name.text)
    /\ fn = convertFunctionType(UpToFirstRest(node))
    /\ AllComments(fn) = AllComments(convertFunctionType(UpToFirstRest(node)))

\* C29: parameters after a rest parameter.  Every function type of the
\* output that comes from a signature of the source has at most one rest
\* parameter, the first of the source; the source parameters before it are
\* its ordinary parameters, and a source parameter after it is neither an
\* ordinary parameter nor the rest parameter of the output, which is the
\* output of the signature cut after its first rest parameter: no diagnostic
\* stands for what was dropped.
C29_SingleRest ==
    Returned =>
      \A i \in DOMAIN OutBody :
        LET statement == sourceFile.statements[i]
        IN /\ (statement.kind = "FunctionDeclaration"
               /\ FunctionTypeOf(OutBody[i]) # Null) =>
                DropsAfterFirstRest(FunctionTypeOf(OutBody[i]), statement)
           /\ \A node \in {d \in Descendants(statement) : d.kind \in SignatureKinds} :
                convertFunctionType(node) \in FlowNodes(OutBody[i]) =>
                  DropsAfterFirstRest(convertFunctionType(node), node)

\* The function k(a: P, ...r: P[], z: Q) came out as a DeclareFunction with
\* the one ordinary parameter a and the rest parameter r, without a comment:
\* z, after the rest parameter, is nowhere.
C29_Witness ==
    /\ Returned
    /\ \E i \in DOMAIN OutBody :
         LET statement == sourceFile.statements[i]
             fn == FunctionTypeOf(OutBody[i])
         IN /\ statement.kind = "FunctionDeclaration"
            /\ fn # Null
            /\ AfterFirstRest(statement) = {3}
            /\ statement.parameters[3].name.text = "z"
            /\ Len(fn.params) = 1
            /\ fn.params[1].name = b_identifier("a")
            /\ fn.rest # Null
            /\ fn.rest.name = b_identifier("r")
            /\ AllComments(OutBody[i]) = {}

\* The value of a decimal digit.
DigitValue(c) ==
    CASE c = "0" -> 0 [] c = "1" -> 1 [] c = "2" -> 2 [] c = "3" -> 3
      [] c = "4" -> 4 [] c = "5" -> 5 [] c = "6" -> 6 [] c = "7" -> 7
      [] c = "8" -> 8 [] c = "9" -> 9

\* The number a string of decimal digits denotes, after the digits read so
\* far, worth 'value'.
RECURSIVE DecimalValue(_, _)
DecimalValue(digits, value) ==
    IF Len(digits) = 0 THEN value
    ELSE DecimalValue(SubSeq(digits, 2, Len(digits)),
                      10 * value + DigitValue(SubSeq(digits, 1, 1)))

\* The number the raw text of a numeric literal type denotes when it is
\* printed: decimal digits, after a minus sign or not.
RawDenotes(raw) ==
    IF Len(raw) > 0 /\ SubSeq(raw, 1, 1) = "-"
    THEN 0 - DecimalValue(SubSeq(raw, 2, Len(raw)), 0)
    ELSE DecimalValue(raw, 0)

\* C30: for every numeric literal type convertType returns, the unary-minus
\* case included, the raw text of the node denotes the number that is the
\* node's value.
C30_RawAgreesWithValue ==
    typeOut # Null =>
      \A n \in FlowNodes(typeOut) :
        n.type = "NumberLiteralTypeAnnotation" =>
          RawDenotes(n.raw) = n.numberValue

====
